---- MODULE Spec2Model ----
(***************************************************************************)
(* TurfOps: the agronomic rules engine, the forecast model it queries and  *)
(* the twelve rules it evaluates.                                          *)
(*                                                                         *)
(* Units.  Every f64 of the source is compared with constants that are     *)
(* exact on the following integer grids, so the model keeps integers:      *)
(*   temperatures        whole degrees Fahrenheit                          *)
(*   soil moisture       hundredths  (0.10 is 10)                          *)
(*   probabilities       percent     (0.5 is 50)                           *)
(*   precipitation       tenths of a millimetre (2.5 mm is 25)             *)
(*   humidity, wind      whole percent / whole mph                         *)
(* Timestamps are whole hours since an epoch, a UTC calendar date of the   *)
(* forecast is the day number  timestamp \div 24.  Local calendar dates    *)
(* (Local::now().date_naive()) are records [year, month, day]; the years   *)
(* of the model are not leap years.                                        *)
(***************************************************************************)
EXTENDS Integers, Sequences, FiniteSets, TLC

VARIABLES
    today,      \* Local::now().date_naive(), read by the seasonal rules
    now,        \* Utc::now() in hours, read by the forecast queries
    profile,    \* LawnProfile handed to the engine
    history,    \* &[Application] handed to the engine
    env,        \* EnvironmentalSummary handed to the engine
    pc,         \* position of RulesEngine::evaluate: idle / evaluating / done / panicked
    idx,        \* index of the next rule of the registry to be evaluated
    results,    \* the Vec<Recommendation> collected so far
    calls,      \* the rules invoked so far by the current pass, in order
    op,         \* the forecast query applied last ("none" before the first)
    arg,        \* its argument
    ret,        \* its result
    app_state   \* the App of the terminal loop (None where no terminal runs)

vars == <<today, now, profile, history, env, pc, idx, results, calls, op, arg, ret, app_state>>

----------------------------------------------------------------------------
(* Option<T>: None is the empty sequence, Some(v) the one-element sequence *)

None == <<>>

Some(v) == <<v>>

IsSome(o) == Len(o) = 1

IsNone(o) == Len(o) = 0

Unwrap(o) == o[1]

UnwrapOr(o, dflt) == IF IsSome(o) THEN o[1] ELSE dflt

----------------------------------------------------------------------------
(* Calendar dates (chrono::NaiveDate)                                      *)

DaysBeforeMonth == <<0, 31, 59, 90, 120, 151, 181, 212, 243, 273, 304, 334>>

Date(y, m, d) == [year |-> y, month |-> m, day |-> d]

Ordinal(date) == date.year * 365 + DaysBeforeMonth[date.month] + date.day

DateLT(a, b) == Ordinal(a) < Ordinal(b)

DateLE(a, b) == Ordinal(a) <= Ordinal(b)

NumDays(a, b) == Ordinal(a) - Ordinal(b)

----------------------------------------------------------------------------
(* Sequence helpers (iterator adaptors of the source)                      *)

RECURSIVE SumSeq(_)
SumSeq(s) == IF s = <<>> THEN 0 ELSE Head(s) + SumSeq(Tail(s))

RECURSIVE MaxSeq(_, _)
MaxSeq(s, acc) == IF s = <<>> THEN acc
                  ELSE MaxSeq(Tail(s), IF Head(s) > acc THEN Head(s) ELSE acc)

RECURSIVE MinSeq(_, _)
MinSeq(s, acc) == IF s = <<>> THEN acc
                  ELSE MinSeq(Tail(s), IF Head(s) < acc THEN Head(s) ELSE acc)

Take(s, n) == SubSeq(s, 1, IF Len(s) < n THEN Len(s) ELSE n)

MapSeq(s, F(_)) == [i \in 1..Len(s) |-> F(s[i])]

\* iter().take_while(P).count(): the length of the longest prefix satisfying P
TakeWhileCount(s, P(_)) ==
    Cardinality({i \in 1..Len(s) : \A j \in 1..i : P(s[j])})

----------------------------------------------------------------------------
(* models/lawn_profile.rs, models/recommendation.rs                        *)

GrassType == {"KentuckyBluegrass", "TallFescue", "PerennialRyegrass", "FineFescue",
              "Bermuda", "Zoysia", "StAugustine", "Mixed"}

is_cool_season(g) ==
    g \in {"KentuckyBluegrass", "TallFescue", "PerennialRyegrass", "FineFescue"}

Severity == {"Info", "Advisory", "Warning", "Critical"}

SeverityRank(s) ==
    CASE s = "Info" -> 0 [] s = "Advisory" -> 1 [] s = "Warning" -> 2 [] s = "Critical" -> 3

\* format!("{}", x) of a number: its decimal form (units and precision dropped)
Fmt(x) == ToString(x)

\* DataPoint::new
DataPoint(label, value) == [label |-> label, value |-> value]

\* a constructor that would hand out recommendations already marked addressed
Recommendation_addressed(rule, id, year, severity, data_points) ==
    [rule |-> rule, id |-> id, year |-> year, severity |-> severity,
     data_points |-> data_points, suggested_action |-> None,
     dismissed |-> FALSE, addressed |-> TRUE]

\* Recommendation::new followed by the with_data_point calls of the builder.
\* id is the identifier without its year suffix, year the suffix (0: none),
\* rule the struct that built it, data_points the points in push order.
Recommendation(rule, id, year, severity, data_points) ==
    [rule |-> rule, id |-> id, year |-> year, severity |-> severity,
     data_points |-> data_points, suggested_action |-> None,
     dismissed |-> FALSE, addressed |-> FALSE]

\* Recommendation::with_action; of the action text the model keeps what it
\* states: a nitrogen rate in hundredths of a pound per 1000 sqft, or the day
\* to plan for
with_action(r, action) == [r EXCEPT !.suggested_action = Some(action)]

is_active(r) == ~r.dismissed /\ ~r.addressed

Labels(r) == {r.data_points[i].label : i \in 1..Len(r.data_points)}

----------------------------------------------------------------------------
(* models/environmental.rs                                                 *)

\* variant: one more fallback, to the 50 cm probe
primary_soil_moisture_deep(r) ==
    IF IsSome(r.soil_moisture_10) THEN r.soil_moisture_10
    ELSE IF IsSome(r.soil_moisture_5) THEN r.soil_moisture_5
    ELSE IF IsSome(r.soil_moisture_20) THEN r.soil_moisture_20
    ELSE r.soil_moisture_50

primary_soil_moisture(r) ==
    IF IsSome(r.soil_moisture_10) THEN r.soil_moisture_10
    ELSE IF IsSome(r.soil_moisture_5) THEN r.soil_moisture_5
    ELSE r.soil_moisture_20

\* EnvironmentalReading::new: every channel absent
EmptyReading ==
    [soil_temp_10_f |-> None, soil_moisture_5 |-> None, soil_moisture_10 |-> None,
     soil_moisture_20 |-> None, ambient_temp_f |-> None, humidity_percent |-> None]

\* EnvironmentalSummary::default()
DefaultSummary ==
    [current |-> None, soil_temp_7day_avg_f |-> None, ambient_temp_7day_avg_f |-> None,
     humidity_7day_avg |-> None, precipitation_7day_total_mm |-> None,
     soil_temp_trend |-> "Stable", forecast |-> None]

----------------------------------------------------------------------------
(* models/forecast.rs: WeatherForecast                                     *)

\* Utc::now().date_naive()
UtcToday(t) == t \div 24

WeatherCondition ==
    {"Clear", "Clouds", "Rain", "Drizzle", "Thunderstorm", "Snow", "Mist", "Fog", "Other"}

next_hours(f, t, hours) ==
    SelectSeq(f.hourly, LAMBDA p : p.timestamp <= t + hours)

next_days(f, t, days) ==
    SelectSeq(f.daily_summary, LAMBDA d : d.date <= UtcToday(t) + days)

\* variant: a point of exactly 0.1 mm or exactly 0.5 already counts
FirstRainTime_inclusive(points) ==
    LET hits == SelectSeq(points, LAMBDA p : p.precipitation_mm >= 1 \/ p.precipitation_prob >= 50)
    IN  IF hits = <<>> THEN None ELSE Some(hits[1].timestamp)

\* the first windowed point with precipitation > 0.1 mm or probability > 0.5
FirstRainTime(points) ==
    LET hits == SelectSeq(points, LAMBDA p : p.precipitation_mm > 1 \/ p.precipitation_prob > 50)
    IN  IF hits = <<>> THEN None ELSE Some(hits[1].timestamp)

rain_expected_within(f, t, hours, threshold_mm) ==
    LET points       == next_hours(f, t, hours)
        total_precip == SumSeq(MapSeq(points, LAMBDA p : p.precipitation_mm))
        max_prob     == MaxSeq(MapSeq(points, LAMBDA p : p.precipitation_prob), 0)
    IN  IF total_precip >= threshold_mm \/ max_prob >= 50
        THEN Some([expected_mm |-> total_precip, max_probability |-> max_prob,
                   first_expected |-> FirstRainTime(points)])
        ELSE None

max_temp_next_days(f, t, days) ==
    LET highs == MapSeq(next_days(f, t, days), LAMBDA d : d.high_temp_f)
    IN  IF highs = <<>> THEN None ELSE Some(MaxSeq(highs, highs[1]))

consecutive_high_humidity_days(f, threshold) ==
    TakeWhileCount(f.daily_summary, LAMBDA d : d.avg_humidity >= threshold)

----------------------------------------------------------------------------
(* models/application.rs                                                   *)

ApplicationType == {"PreEmergent", "PostEmergent", "Fertilizer", "Fungicide", "Insecticide",
                    "GrubControl", "Overseed", "Aeration", "Dethatching", "Lime", "Sulfur",
                    "Wetting", "Other"}

Application(type, date) == [application_type |-> type, application_date |-> date]

\* history.iter().any(P)
AnyApp(h, P(_)) == \E i \in 1..Len(h) : P(h[i])

----------------------------------------------------------------------------
(* db/queries.rs: the enums as they are written to and read from a column. *)
(* A text is the sequence of its characters.                               *)

\* format!("{:?}", v) of a fieldless enum with derive(Debug): the variant's name
\* (IrrigationType::None is "NoIrrigation" in the model, "None" as a text)
DebugName(v) ==
    CASE v = "PreEmergent" -> <<"P", "r", "e", "E", "m", "e", "r", "g", "e", "n", "t">>
      [] v = "PostEmergent" -> <<"P", "o", "s", "t", "E", "m", "e", "r", "g", "e", "n", "t">>
      [] v = "Fertilizer" -> <<"F", "e", "r", "t", "i", "l", "i", "z", "e", "r">>
      [] v = "Fungicide" -> <<"F", "u", "n", "g", "i", "c", "i", "d", "e">>
      [] v = "Insecticide" -> <<"I", "n", "s", "e", "c", "t", "i", "c", "i", "d", "e">>
      [] v = "GrubControl" -> <<"G", "r", "u", "b", "C", "o", "n", "t", "r", "o", "l">>
      [] v = "Overseed" -> <<"O", "v", "e", "r", "s", "e", "e", "d">>
      [] v = "Aeration" -> <<"A", "e", "r", "a", "t", "i", "o", "n">>
      [] v = "Dethatching" -> <<"D", "e", "t", "h", "a", "t", "c", "h", "i", "n", "g">>
      [] v = "Lime" -> <<"L", "i", "m", "e">>
      [] v = "Sulfur" -> <<"S", "u", "l", "f", "u", "r">>
      [] v = "Wetting" -> <<"W", "e", "t", "t", "i", "n", "g">>
      [] v = "Other" -> <<"O", "t", "h", "e", "r">>
      [] v = "KentuckyBluegrass" -> <<"K", "e", "n", "t", "u", "c", "k", "y", "B", "l", "u", "e", "g", "r", "a", "s", "s">>
      [] v = "TallFescue" -> <<"T", "a", "l", "l", "F", "e", "s", "c", "u", "e">>
      [] v = "PerennialRyegrass" -> <<"P", "e", "r", "e", "n", "n", "i", "a", "l", "R", "y", "e", "g", "r", "a", "s", "s">>
      [] v = "FineFescue" -> <<"F", "i", "n", "e", "F", "e", "s", "c", "u", "e">>
      [] v = "Bermuda" -> <<"B", "e", "r", "m", "u", "d", "a">>
      [] v = "Zoysia" -> <<"Z", "o", "y", "s", "i", "a">>
      [] v = "StAugustine" -> <<"S", "t", "A", "u", "g", "u", "s", "t", "i", "n", "e">>
      [] v = "Mixed" -> <<"M", "i", "x", "e", "d">>
      [] v = "Clay" -> <<"C", "l", "a", "y">>
      [] v = "Loam" -> <<"L", "o", "a", "m">>
      [] v = "Sandy" -> <<"S", "a", "n", "d", "y">>
      [] v = "SiltLoam" -> <<"S", "i", "l", "t", "L", "o", "a", "m">>
      [] v = "ClayLoam" -> <<"C", "l", "a", "y", "L", "o", "a", "m">>
      [] v = "SandyLoam" -> <<"S", "a", "n", "d", "y", "L", "o", "a", "m">>
      [] v = "InGround" -> <<"I", "n", "G", "r", "o", "u", "n", "d">>
      [] v = "Hose" -> <<"H", "o", "s", "e">>
      [] v = "NoIrrigation" -> <<"N", "o", "n", "e">>

\* str::to_lowercase on the ASCII letters
to_lowercase(s) ==
    LET upper == <<"A", "B", "C", "D", "E", "F", "G", "H", "I", "J", "K", "L", "M", "N", "O", "P", "Q", "R", "S", "T", "U", "V", "W", "X", "Y", "Z">>
        lower == <<"a", "b", "c", "d", "e", "f", "g", "h", "i", "j", "k", "l", "m", "n", "o", "p", "q", "r", "s", "t", "u", "v", "w", "x", "y", "z">>
    IN  [i \in 1..Len(s) |->
            IF \E k \in 1..26 : upper[k] = s[i]
            THEN lower[CHOOSE k \in 1..26 : upper[k] = s[i]]
            ELSE s[i]]

\* ApplicationType::from_str: lowercase, '-' and ' ' removed, then matched
ApplicationType_from_str(s) ==
    LET k == SelectSeq(to_lowercase(s), LAMBDA c : c \notin {"-", " "})
    IN  CASE k = <<"p", "r", "e", "e", "m", "e", "r", "g", "e", "n", "t">> -> Some("PreEmergent")
          [] k = <<"p", "o", "s", "t", "e", "m", "e", "r", "g", "e", "n", "t">> -> Some("PostEmergent")
          [] k = <<"f", "e", "r", "t", "i", "l", "i", "z", "e", "r">> -> Some("Fertilizer")
          [] k = <<"f", "u", "n", "g", "i", "c", "i", "d", "e">> -> Some("Fungicide")
          [] k = <<"i", "n", "s", "e", "c", "t", "i", "c", "i", "d", "e">> -> Some("Insecticide")
          [] k = <<"g", "r", "u", "b", "c", "o", "n", "t", "r", "o", "l">> -> Some("GrubControl")
          [] k = <<"o", "v", "e", "r", "s", "e", "e", "d">> -> Some("Overseed")
          [] k = <<"a", "e", "r", "a", "t", "i", "o", "n">> -> Some("Aeration")
          [] k = <<"d", "e", "t", "h", "a", "t", "c", "h", "i", "n", "g">> -> Some("Dethatching")
          [] k = <<"l", "i", "m", "e">> -> Some("Lime")
          [] k = <<"s", "u", "l", "f", "u", "r">> -> Some("Sulfur")
          [] k = <<"w", "e", "t", "t", "i", "n", "g">> \/ k = <<"w", "e", "t", "t", "i", "n", "g", "a", "g", "e", "n", "t">> -> Some("Wetting")
          [] k = <<"o", "t", "h", "e", "r">> -> Some("Other")
          [] OTHER -> None

\* variant: only the spelled-out names are matched, not the fused ones
GrassType_from_str_spaced(s) ==
    LET k == to_lowercase(s)
    IN  CASE k = <<"k", "e", "n", "t", "u", "c", "k", "y", " ", "b", "l", "u", "e", "g", "r", "a", "s", "s">> \/ k = <<"k", "b", "g">> -> Some("KentuckyBluegrass")
          [] k = <<"t", "a", "l", "l", " ", "f", "e", "s", "c", "u", "e">> \/ k = <<"t", "t", "t", "f">> -> Some("TallFescue")
          [] k = <<"p", "e", "r", "e", "n", "n", "i", "a", "l", " ", "r", "y", "e", "g", "r", "a", "s", "s">> \/ k = <<"p", "r", "g">> -> Some("PerennialRyegrass")
          [] k = <<"f", "i", "n", "e", " ", "f", "e", "s", "c", "u", "e">> -> Some("FineFescue")
          [] k = <<"b", "e", "r", "m", "u", "d", "a">> -> Some("Bermuda")
          [] k = <<"z", "o", "y", "s", "i", "a">> -> Some("Zoysia")
          [] k = <<"s", "t", ".", " ", "a", "u", "g", "u", "s", "t", "i", "n", "e">> \/ k = <<"s", "t", " ", "a", "u", "g", "u", "s", "t", "i", "n", "e">> -> Some("StAugustine")
          [] k = <<"m", "i", "x", "e", "d">> -> Some("Mixed")
          [] OTHER -> None

\* GrassType::from_str: lowercase, then matched
GrassType_from_str(s) ==
    LET k == to_lowercase(s)
    IN  CASE k = <<"k", "e", "n", "t", "u", "c", "k", "y", "b", "l", "u", "e", "g", "r", "a", "s", "s">> \/ k = <<"k", "e", "n", "t", "u", "c", "k", "y", " ", "b", "l", "u", "e", "g", "r", "a", "s", "s">> \/ k = <<"k", "b", "g">> -> Some("KentuckyBluegrass")
          [] k = <<"t", "a", "l", "l", "f", "e", "s", "c", "u", "e">> \/ k = <<"t", "a", "l", "l", " ", "f", "e", "s", "c", "u", "e">> \/ k = <<"t", "t", "t", "f">> -> Some("TallFescue")
          [] k = <<"p", "e", "r", "e", "n", "n", "i", "a", "l", "r", "y", "e", "g", "r", "a", "s", "s">> \/ k = <<"p", "e", "r", "e", "n", "n", "i", "a", "l", " ", "r", "y", "e", "g", "r", "a", "s", "s">> \/ k = <<"p", "r", "g">> -> Some("PerennialRyegrass")
          [] k = <<"f", "i", "n", "e", "f", "e", "s", "c", "u", "e">> \/ k = <<"f", "i", "n", "e", " ", "f", "e", "s", "c", "u", "e">> -> Some("FineFescue")
          [] k = <<"b", "e", "r", "m", "u", "d", "a">> -> Some("Bermuda")
          [] k = <<"z", "o", "y", "s", "i", "a">> -> Some("Zoysia")
          [] k = <<"s", "t", "a", "u", "g", "u", "s", "t", "i", "n", "e">> \/ k = <<"s", "t", ".", " ", "a", "u", "g", "u", "s", "t", "i", "n", "e">> \/ k = <<"s", "t", " ", "a", "u", "g", "u", "s", "t", "i", "n", "e">> -> Some("StAugustine")
          [] k = <<"m", "i", "x", "e", "d">> -> Some("Mixed")
          [] OTHER -> None

\* SoilType::from_str: lowercase, then matched
SoilType_from_str(s) ==
    LET k == to_lowercase(s)
    IN  CASE k = <<"c", "l", "a", "y">> -> Some("Clay")
          [] k = <<"l", "o", "a", "m">> -> Some("Loam")
          [] k = <<"s", "a", "n", "d", "y">> -> Some("Sandy")
          [] k = <<"s", "i", "l", "t", "l", "o", "a", "m">> \/ k = <<"s", "i", "l", "t", " ", "l", "o", "a", "m">> -> Some("SiltLoam")
          [] k = <<"c", "l", "a", "y", "l", "o", "a", "m">> \/ k = <<"c", "l", "a", "y", " ", "l", "o", "a", "m">> -> Some("ClayLoam")
          [] k = <<"s", "a", "n", "d", "y", "l", "o", "a", "m">> \/ k = <<"s", "a", "n", "d", "y", " ", "l", "o", "a", "m">> -> Some("SandyLoam")
          [] OTHER -> None

\* IrrigationType::from_str: lowercase, then matched
IrrigationType_from_str(s) ==
    LET k == to_lowercase(s)
    IN  CASE k = <<"i", "n", "g", "r", "o", "u", "n", "d">> \/ k = <<"i", "n", "-", "g", "r", "o", "u", "n", "d">> \/ k = <<"i", "n", " ", "g", "r", "o", "u", "n", "d">> -> Some("InGround")
          [] k = <<"h", "o", "s", "e">> \/ k = <<"s", "p", "r", "i", "n", "k", "l", "e", "r">> \/ k = <<"h", "o", "s", "e", "/", "s", "p", "r", "i", "n", "k", "l", "e", "r">> -> Some("Hose")
          [] k = <<"n", "o", "n", "e">> -> Some("NoIrrigation")
          [] OTHER -> None

Digits == <<"0", "1", "2", "3", "4", "5", "6", "7", "8", "9">>

\* f64::to_string of a whole number: its decimal digits
RECURSIVE Decimal(_)
Decimal(n) == IF n < 10 THEN <<Digits[n + 1]>>
              ELSE Append(Decimal(n \div 10), Digits[(n % 10) + 1])

\* str::parse::<f64> on texts of digits: the number, None for the empty text
\* and for a text with any other character (signs, points, exponents, inf and
\* nan are not typed in the model)
RECURSIVE DecimalValue(_)
DecimalValue(s) ==
    IF s = <<>> THEN 0
    ELSE 10 * DecimalValue(SubSeq(s, 1, Len(s) - 1))
            + (CHOOSE d \in 0..9 : Digits[d + 1] = s[Len(s)])

parse_f64(s) ==
    IF s # <<>> /\ \A i \in 1..Len(s) : \E d \in 1..10 : Digits[d] = s[i]
    THEN Some(DecimalValue(s)) ELSE None

----------------------------------------------------------------------------
(* logic/rules/pre_emergent.rs                                             *)

\* already_applied: a pre-emergent application dated in the current year
pre_emergent_already_applied(h, d) ==
    AnyApp(h, LAMBDA app : app.application_type = "PreEmergent"
                           /\ app.application_date.year = d.year)

PreEmergentRule(e, p, h, d) ==
    IF ~is_cool_season(p.grass_type) THEN None
    ELSE IF ~(d.month \in 2..5) THEN None
    ELSE IF pre_emergent_already_applied(h, d) THEN None
    ELSE IF IsNone(e.soil_temp_7day_avg_f) THEN None
    ELSE IF IsNone(e.current) THEN None
    ELSE IF IsNone(Unwrap(e.current).soil_temp_10_f) THEN None
    ELSE LET soil_temp_avg == Unwrap(e.soil_temp_7day_avg_f)
         IN  IF soil_temp_avg >= 50 /\ soil_temp_avg <= 60
             THEN Some(Recommendation("PreEmergentRule", "pre_emergent", d.year,
                        IF soil_temp_avg >= 55 THEN "Warning" ELSE "Advisory",
                        <<DataPoint("7-Day Avg Soil Temp", Fmt(soil_temp_avg)),
                          DataPoint("Current Soil Temp (10cm)",
                                    Fmt(Unwrap(Unwrap(e.current).soil_temp_10_f))),
                          DataPoint("Trend", e.soil_temp_trend)>>))
             ELSE IF soil_temp_avg > 60 /\ soil_temp_avg <= 70
             THEN Some(Recommendation("PreEmergentRule", "pre_emergent_late", d.year,
                        "Critical", <<DataPoint("7-Day Avg Soil Temp", Fmt(soil_temp_avg))>>))
             ELSE None

----------------------------------------------------------------------------
(* logic/rules/spring_nitrogen.rs                                          *)

\* variant: February 1 itself does not count
spring_fert_applied_after(h, d) ==
    AnyApp(h, LAMBDA app : app.application_type = "Fertilizer"
                           /\ app.application_date.year = d.year
                           /\ DateLT(Date(d.year, 2, 1), app.application_date))

\* has_spring_fert: a fertilizer application of the current year since February 1
spring_fert_applied(h, d) ==
    AnyApp(h, LAMBDA app : app.application_type = "Fertilizer"
                           /\ app.application_date.year = d.year
                           /\ DateLE(Date(d.year, 2, 1), app.application_date))

SpringNitrogenRule(e, p, h, d) ==
    IF ~is_cool_season(p.grass_type) THEN None
    ELSE IF ~(d.month \in 2..5) THEN None
    ELSE IF IsNone(e.soil_temp_7day_avg_f) THEN None
    ELSE LET soil_temp_avg   == Unwrap(e.soil_temp_7day_avg_f)
             has_spring_fert == spring_fert_applied(h, d)
         IN  IF soil_temp_avg < 50
             THEN IF has_spring_fert
                  THEN Some(Recommendation("SpringNitrogenRule", "spring_n_too_early", 0,
                             "Warning", <<DataPoint("Soil Temp", Fmt(soil_temp_avg)),
                                          DataPoint("Target Temp", "55F minimum")>>))
                  ELSE Some(Recommendation("SpringNitrogenRule", "spring_n_wait", 0,
                             "Info", <<DataPoint("Current Soil Temp", Fmt(soil_temp_avg)),
                                       DataPoint("Target Soil Temp", "55F")>>))
             ELSE IF soil_temp_avg < 55
             THEN IF ~has_spring_fert
                  THEN Some(Recommendation("SpringNitrogenRule", "spring_n_almost", 0,
                             "Info", <<DataPoint("Current Soil Temp", Fmt(soil_temp_avg)),
                                       DataPoint("Target", "55F + 2-3 mowings")>>))
                  ELSE None
             ELSE IF soil_temp_avg <= 65
             THEN IF ~has_spring_fert
                  THEN Some(Recommendation("SpringNitrogenRule", "spring_n_ready", 0,
                             "Advisory", <<DataPoint("Soil Temp", Fmt(soil_temp_avg)),
                                           DataPoint("Recommended Rate",
                                                     "0.5 lb N/1000 sqft")>>))
                  ELSE None
             ELSE None

----------------------------------------------------------------------------
(* logic/rules/grub_control.rs                                             *)

\* variant: the window closes before July 4
grub_outside_window_exclusive(d) ==
    DateLT(d, Date(d.year, 5, 15)) \/ DateLE(Date(d.year, 7, 4), d)

\* today < window_start || today > window_end, May 15 to July 4
grub_outside_window(d) ==
    DateLT(d, Date(d.year, 5, 15)) \/ DateLT(Date(d.year, 7, 4), d)

\* variant: an insecticide does not count
grub_already_applied_grub_only(h, d) ==
    AnyApp(h, LAMBDA app : app.application_type = "GrubControl"
                           /\ app.application_date.year = d.year
                           /\ DateLE(Date(d.year, 5, 15), app.application_date))

\* already_applied: grub control or insecticide of the current year since May 15
grub_already_applied(h, d) ==
    AnyApp(h, LAMBDA app : app.application_type \in {"GrubControl", "Insecticide"}
                           /\ app.application_date.year = d.year
                           /\ DateLE(Date(d.year, 5, 15), app.application_date))

\* variant: the Warning is given early in the window, the Advisory late
GrubControlRule_early_warning(e, p, h, d) ==
    LET window_end == Date(d.year, 7, 4)
    IN  IF grub_outside_window(d) THEN None
        ELSE IF grub_already_applied(h, d) THEN None
        ELSE IF IsNone(e.soil_temp_7day_avg_f) THEN None
        ELSE IF IsNone(e.current) THEN None
        ELSE IF IsNone(Unwrap(e.current).soil_temp_10_f) THEN None
        ELSE LET soil_temp_avg  == Unwrap(e.soil_temp_7day_avg_f)
                 days_remaining == NumDays(window_end, d)
             IN  IF soil_temp_avg >= 60 /\ soil_temp_avg <= 75
                 THEN Some(Recommendation("GrubControlRule", "grub_control", d.year,
                            IF days_remaining > 14 THEN "Warning" ELSE "Advisory",
                            <<DataPoint("7-Day Avg Soil Temp", Fmt(soil_temp_avg)),
                              DataPoint("Current Soil Temp (10cm)",
                                        Fmt(Unwrap(Unwrap(e.current).soil_temp_10_f))),
                              DataPoint("Window Closes", "July 04")>>))
                 ELSE IF soil_temp_avg > 75
                 THEN Some(Recommendation("GrubControlRule", "grub_control_late", d.year,
                            "Info", <<DataPoint("7-Day Avg Soil Temp", Fmt(soil_temp_avg))>>))
                 ELSE None

GrubControlRule(e, p, h, d) ==
    LET window_end == Date(d.year, 7, 4)
    IN  IF grub_outside_window(d) THEN None
        ELSE IF grub_already_applied(h, d) THEN None
        ELSE IF IsNone(e.soil_temp_7day_avg_f) THEN None
        ELSE IF IsNone(e.current) THEN None
        ELSE IF IsNone(Unwrap(e.current).soil_temp_10_f) THEN None
        ELSE LET soil_temp_avg  == Unwrap(e.soil_temp_7day_avg_f)
                 days_remaining == NumDays(window_end, d)
             IN  IF soil_temp_avg >= 60 /\ soil_temp_avg <= 75
                 THEN Some(Recommendation("GrubControlRule", "grub_control", d.year,
                            IF days_remaining <= 14 THEN "Warning" ELSE "Advisory",
                            <<DataPoint("7-Day Avg Soil Temp", Fmt(soil_temp_avg)),
                              DataPoint("Current Soil Temp (10cm)",
                                        Fmt(Unwrap(Unwrap(e.current).soil_temp_10_f))),
                              DataPoint("Window Closes", "July 04")>>))
                 ELSE IF soil_temp_avg > 75
                 THEN Some(Recommendation("GrubControlRule", "grub_control_late", d.year,
                            "Info", <<DataPoint("7-Day Avg Soil Temp", Fmt(soil_temp_avg))>>))
                 ELSE None

----------------------------------------------------------------------------
(* logic/rules/fertilizer.rs                                               *)

\* variant: Critical needs the heat and the drought together
FertilizerSeverity_both(ambient_temp, soil_moisture) ==
    IF ambient_temp > 90 /\ (IsSome(soil_moisture) /\ Unwrap(soil_moisture) < 5)
    THEN "Critical" ELSE "Warning"

\* the severity of a fertilizer block, given that a warning was pushed
FertilizerSeverity(ambient_temp, soil_moisture) ==
    IF ambient_temp > 90 \/ (IsSome(soil_moisture) /\ Unwrap(soil_moisture) < 5)
    THEN "Critical" ELSE "Warning"

FertilizerRule(e, p, h, d) ==
    IF ~is_cool_season(p.grass_type) THEN None
    ELSE IF IsNone(e.current) THEN None
    ELSE IF IsNone(Unwrap(e.current).ambient_temp_f) THEN None
    ELSE LET current       == Unwrap(e.current)
             ambient_temp  == Unwrap(current.ambient_temp_f)
             soil_moisture == primary_soil_moisture(current)
             heat          == IF ambient_temp > 85
                              THEN <<DataPoint("Ambient Temp", Fmt(ambient_temp))>> ELSE <<>>
             moist         == IF IsSome(soil_moisture)
                                 /\ (Unwrap(soil_moisture) < 10 \/ Unwrap(soil_moisture) > 40)
                              THEN <<DataPoint("Soil Moisture", Fmt(Unwrap(soil_moisture)))>>
                              ELSE <<>>
             warnings      == heat \o moist
             soil          == IF IsSome(current.soil_temp_10_f)
                              THEN <<DataPoint("Soil Temp (10cm)",
                                               Fmt(Unwrap(current.soil_temp_10_f)))>>
                              ELSE <<>>
         IN  IF warnings = <<>> THEN None
             ELSE Some(Recommendation("FertilizerRule", "fertilizer_block", 0,
                        FertilizerSeverity(ambient_temp, soil_moisture), warnings \o soil))

----------------------------------------------------------------------------
(* logic/rules/fungicide.rs                                                *)

FungicideRule(e, p, h, d) ==
    IF ~is_cool_season(p.grass_type) THEN None
    ELSE IF IsNone(e.current) THEN None
    ELSE IF IsNone(Unwrap(e.current).humidity_percent) THEN None
    ELSE IF IsNone(Unwrap(e.current).ambient_temp_f) THEN None
    ELSE IF IsNone(e.humidity_7day_avg) THEN None
    ELSE LET humidity           == Unwrap(Unwrap(e.current).humidity_percent)
             ambient_temp       == Unwrap(Unwrap(e.current).ambient_temp_f)
             sustained_humidity == Unwrap(e.humidity_7day_avg) > 75
         IN  IF ~(humidity > 80) \/ ~(ambient_temp > 70) THEN None
             ELSE Some(Recommendation("FungicideRule", "fungicide_risk", 0,
                        IF humidity > 90 /\ ambient_temp > 80 /\ sustained_humidity
                        THEN "Critical"
                        ELSE IF sustained_humidity THEN "Warning" ELSE "Advisory",
                        <<DataPoint("Current Humidity", Fmt(humidity)),
                          DataPoint("Ambient Temp", Fmt(ambient_temp)),
                          DataPoint("7-Day Avg Humidity", Fmt(Unwrap(e.humidity_7day_avg)))>>))

----------------------------------------------------------------------------
(* logic/rules/fall_overseeding.rs                                         *)

\* today < window_start || today > window_end, August 15 to October 31
overseeding_outside_window(d) ==
    DateLT(d, Date(d.year, 8, 15)) \/ DateLT(Date(d.year, 10, 31), d)

\* already_seeded: an overseed application of the current year since August 15
already_seeded(h, d) ==
    AnyApp(h, LAMBDA app : app.application_type = "Overseed"
                           /\ app.application_date.year = d.year
                           /\ DateLE(Date(d.year, 8, 15), app.application_date))

FallOverseedingRule(e, p, h, d, t) ==
    LET window_end == Date(d.year, 10, 31)
    IN  IF ~is_cool_season(p.grass_type) THEN None
        ELSE IF overseeding_outside_window(d) THEN None
        ELSE IF already_seeded(h, d) THEN None
        ELSE IF IsNone(e.soil_temp_7day_avg_f) THEN None
        ELSE IF IsNone(e.current) THEN None
        ELSE IF IsNone(Unwrap(e.current).soil_temp_10_f) THEN None
        ELSE LET soil_temp_avg  == Unwrap(e.soil_temp_7day_avg_f)
                 days_remaining == NumDays(window_end, d)
                 \* avg_high < 85 with avg_high = sum / max(len, 1)
                 forecast_favorable ==
                     IF IsNone(e.forecast) THEN TRUE
                     ELSE LET days == next_days(Unwrap(e.forecast), t, 14)
                              n    == IF Len(days) > 1 THEN Len(days) ELSE 1
                          IN  SumSeq(MapSeq(days, LAMBDA x : x.high_temp_f)) < 85 * n
                 note == IF forecast_favorable THEN <<>>
                         ELSE <<DataPoint("Forecast Note",
                                          "Hot weather ahead - monitor seedlings")>>
             IN  IF soil_temp_avg >= 50 /\ soil_temp_avg <= 65
                 THEN Some(Recommendation("FallOverseedingRule", "fall_overseeding", d.year,
                            IF soil_temp_avg >= 55 /\ soil_temp_avg <= 62
                            THEN (IF days_remaining < 21 THEN "Warning" ELSE "Advisory")
                            ELSE IF days_remaining < 14 THEN "Warning" ELSE "Advisory",
                            <<DataPoint("7-Day Avg Soil Temp", Fmt(soil_temp_avg)),
                              DataPoint("Current Soil Temp",
                                        Fmt(Unwrap(Unwrap(e.current).soil_temp_10_f))),
                              DataPoint("Days Remaining", Fmt(days_remaining))>> \o note))
                 ELSE IF soil_temp_avg > 65 /\ soil_temp_avg <= 75
                 THEN IF DateLT(d, Date(d.year, 9, 15))
                      THEN Some(Recommendation("FallOverseedingRule", "fall_overseeding_wait",
                                 d.year, "Info", <<DataPoint("Soil Temp", Fmt(soil_temp_avg))>>))
                      ELSE Some(Recommendation("FallOverseedingRule", "fall_overseeding_late",
                                 d.year, "Warning", <<DataPoint("Soil Temp", Fmt(soil_temp_avg))>>))
                 ELSE IF soil_temp_avg < 50
                 THEN IF days_remaining > 14
                      THEN Some(Recommendation("FallOverseedingRule", "fall_overseeding_cold",
                                 d.year, "Warning", <<DataPoint("Soil Temp", Fmt(soil_temp_avg))>>))
                      ELSE None
                 ELSE None

----------------------------------------------------------------------------
(* logic/rules/fall_fertilization.rs                                       *)

\* variant: October 1, November 1 and December 1 still belong to the phase before
determine_fall_phase_late(d, year) ==
    IF DateLE(d, Date(year, 10, 1)) THEN "Early"
    ELSE IF DateLE(d, Date(year, 11, 1)) THEN "Mid"
    ELSE IF DateLE(d, Date(year, 12, 1)) THEN "Late"
    ELSE "TooLate"

determine_fall_phase(d, year) ==
    IF DateLT(d, Date(year, 10, 1)) THEN "Early"
    ELSE IF DateLT(d, Date(year, 11, 1)) THEN "Mid"
    ELSE IF DateLT(d, Date(year, 12, 1)) THEN "Late"
    ELSE "TooLate"

\* today < window_start || today > window_end, September 1 to November 30
fall_fert_outside_window(d) ==
    DateLT(d, Date(d.year, 9, 1)) \/ DateLT(Date(d.year, 11, 30), d)

FallFertilizationRule(e, p, h, d) ==
    LET window_start == Date(d.year, 9, 1)
    IN  IF ~is_cool_season(p.grass_type) THEN None
        ELSE IF fall_fert_outside_window(d) THEN None
        ELSE IF IsNone(e.soil_temp_7day_avg_f) THEN None
        ELSE LET soil_temp_avg == Unwrap(e.soil_temp_7day_avg_f)
                 fall_apps ==
                     SelectSeq(h, LAMBDA app : app.application_type = "Fertilizer"
                                               /\ app.application_date.year = d.year
                                               /\ DateLE(window_start, app.application_date))
                 app_count == Len(fall_apps)
                 \* (today - max date).num_days(), 999 when there is none
                 days_since_last ==
                     IF fall_apps = <<>> THEN 999
                     ELSE Ordinal(d) - MaxSeq(MapSeq(fall_apps,
                                                LAMBDA app : Ordinal(app.application_date)),
                                              Ordinal(fall_apps[1].application_date))
                 phase        == determine_fall_phase(d, d.year)
                 soil_temp_ok == soil_temp_avg >= 45 /\ soil_temp_avg <= 65
                 sev          == IF app_count = 0 THEN "Warning" ELSE "Advisory"
             IN  CASE phase = "Early" ->
                        IF app_count = 0 /\ soil_temp_ok
                        THEN Some(with_action(
                                   Recommendation("FallFertilizationRule", "fall_fert_early", 0,
                                   "Advisory",
                                   <<DataPoint("Soil Temp", Fmt(soil_temp_avg)),
                                     DataPoint("Phase", "Early Fall (Recovery)"),
                                     DataPoint("Trend", e.soil_temp_trend)>>), 50))
                        ELSE None
                   [] phase = "Mid" ->
                        IF app_count < 2 /\ days_since_last >= 21 /\ soil_temp_ok
                        THEN Some(with_action(
                                   Recommendation("FallFertilizationRule", "fall_fert_mid", 0,
                                   sev,
                                   <<DataPoint("Soil Temp", Fmt(soil_temp_avg)),
                                     DataPoint("Phase", "Mid-Fall (Primary)"),
                                     DataPoint("Fall Apps So Far", Fmt(app_count)),
                                     DataPoint("Trend", e.soil_temp_trend)>>), 75))
                        ELSE None
                   [] phase = "Late" ->
                        IF app_count < 3 /\ days_since_last >= 21 /\ soil_temp_avg >= 40
                        THEN Some(with_action(
                                   Recommendation("FallFertilizationRule",
                                   "fall_fert_winterizer", 0,
                                   sev,
                                   <<DataPoint("Soil Temp", Fmt(soil_temp_avg)),
                                     DataPoint("Phase", "Late Fall (Winterizer)"),
                                     DataPoint("Fall Apps So Far", Fmt(app_count))>>), 100))
                        ELSE None
                   [] OTHER -> None

----------------------------------------------------------------------------
(* logic/rules/rain_delay.rs                                               *)

\* RainDelayRule::build_recommendation
RainDelayRec(severity, hours, expected_mm, probability) ==
    Recommendation("RainDelayRule", "rain_delay", 0, severity,
                   <<DataPoint("Expected Rain", Fmt(expected_mm)),
                     DataPoint("Rain Probability", Fmt(probability)),
                     DataPoint("Forecast Window", Fmt(hours))>>)

\* variant: the horizons are tried from the longest to the shortest
RainDelayHorizon_longest_first(f, t) ==
    LET rain_12h == rain_expected_within(f, t, 12, 1)
        rain_24h == rain_expected_within(f, t, 24, 1)
        rain_48h == rain_expected_within(f, t, 48, 1)
    IN  IF IsSome(rain_48h) /\ (Unwrap(rain_48h).max_probability >= 30
                                \/ Unwrap(rain_48h).expected_mm >= 50) THEN 48
        ELSE IF IsSome(rain_24h) /\ (Unwrap(rain_24h).max_probability >= 50
                                     \/ Unwrap(rain_24h).expected_mm >= 25) THEN 24
        ELSE IF IsSome(rain_12h) /\ (Unwrap(rain_12h).max_probability >= 70
                                     \/ Unwrap(rain_12h).expected_mm >= 25) THEN 12
        ELSE 0

\* the horizon (12, 24, 48) the rule reports, 0 when it returns None
RainDelayHorizon(f, t) ==
    LET rain_12h == rain_expected_within(f, t, 12, 1)
        rain_24h == rain_expected_within(f, t, 24, 1)
        rain_48h == rain_expected_within(f, t, 48, 1)
    IN  IF IsSome(rain_12h) /\ (Unwrap(rain_12h).max_probability >= 70
                                \/ Unwrap(rain_12h).expected_mm >= 25) THEN 12
        ELSE IF IsSome(rain_24h) /\ (Unwrap(rain_24h).max_probability >= 50
                                     \/ Unwrap(rain_24h).expected_mm >= 25) THEN 24
        ELSE IF IsSome(rain_48h) /\ (Unwrap(rain_48h).max_probability >= 30
                                     \/ Unwrap(rain_48h).expected_mm >= 50) THEN 48
        ELSE 0

RainDelayRule(e, t) ==
    IF IsNone(e.forecast) THEN None
    ELSE LET hours == RainDelayHorizon(Unwrap(e.forecast), t)
             rain  == Unwrap(rain_expected_within(Unwrap(e.forecast), t, hours, 1))
         IN  IF hours = 0 THEN None
             ELSE Some(RainDelayRec(CASE hours = 12 -> "Critical"
                                      [] hours = 24 -> "Warning"
                                      [] OTHER      -> "Advisory",
                                    hours, rain.expected_mm, rain.max_probability))

----------------------------------------------------------------------------
(* logic/rules/irrigation_forecast.rs                                      *)

IrrigationForecastRule(e, t) ==
    IF IsNone(e.forecast) THEN None
    ELSE IF IsNone(e.current) THEN None
    ELSE IF IsNone(primary_soil_moisture(Unwrap(e.current))) THEN None
    ELSE LET forecast      == Unwrap(e.forecast)
             soil_moisture == Unwrap(primary_soil_moisture(Unwrap(e.current)))
             total_precip  == SumSeq(MapSeq(next_days(forecast, t, 5),
                                            LAMBDA x : x.total_precipitation_mm))
             dry_days      == TakeWhileCount(forecast.daily_summary,
                                  LAMBDA x : x.total_precipitation_mm < 25
                                             /\ x.max_precipitation_prob < 50)
         IN  IF soil_moisture >= 20 THEN None
             ELSE IF IsSome(rain_expected_within(forecast, t, 120, 1)) THEN None
             ELSE IF total_precip > 25 THEN None
             ELSE Some(Recommendation("IrrigationForecastRule", "irrigation_forecast", 0,
                        IF soil_moisture < 10 THEN "Critical"
                        ELSE IF soil_moisture < 15 THEN "Warning" ELSE "Advisory",
                        <<DataPoint("Soil Moisture", Fmt(soil_moisture)),
                          DataPoint("Dry Days Forecast", Fmt(dry_days))>>))

----------------------------------------------------------------------------
(* logic/rules/heat_stress.rs                                              *)

HeatStressRule(e, p, t) ==
    IF ~is_cool_season(p.grass_type) THEN None
    ELSE IF IsNone(e.forecast) THEN None
    ELSE IF IsNone(max_temp_next_days(Unwrap(e.forecast), t, 3)) THEN None
    ELSE LET forecast == Unwrap(e.forecast)
             max_temp == Unwrap(max_temp_next_days(forecast, t, 3))
             hot_days == TakeWhileCount(next_days(forecast, t, 5),
                                        LAMBDA x : x.high_temp_f >= 85)
         IN  IF max_temp < 85 THEN None
             ELSE Some(Recommendation("HeatStressRule", "heat_stress_forecast", 0,
                        IF max_temp >= 95 THEN "Critical"
                        ELSE IF max_temp >= 90 THEN "Warning" ELSE "Advisory",
                        <<DataPoint("Max Forecast Temp", Fmt(max_temp)),
                          DataPoint("Hot Days", Fmt(hot_days))>>))

----------------------------------------------------------------------------
(* logic/rules/application_window.rs                                       *)

\* a day is dry when its total is under 2.5 mm and its probability under 0.5
DayDry(x) == x.total_precipitation_mm < 25 /\ x.max_precipitation_prob < 50

\* Vec::position: the first index whose date equals the day's, 0-based + 1
DayIndex(days, day) ==
    LET hits == {i \in 1..Len(days) : days[i].date = day.date}
    IN  IF hits = {} THEN 1 ELSE CHOOSE i \in hits : \A j \in hits : i <= j

\* env.forecast.as_ref().unwrap() aborts the pass when the forecast is absent
assess_day_quality_panics(e) == IsNone(e.forecast)

\* avg_temp = (high + low) / 2 is compared as high + low against twice the bound
assess_day_quality(day, e) ==
    LET days    == Unwrap(e.forecast).daily_summary
        day_idx == DayIndex(days, day)
        next_day_dry == IF day_idx + 1 <= Len(days) THEN DayDry(days[day_idx + 1]) ELSE TRUE
    IN  [temp_ok     |-> day.high_temp_f + day.low_temp_f >= 100 /\ day.high_temp_f <= 85,
         wind_ok     |-> day.avg_wind_speed_mph < 10,
         humidity_ok |-> day.avg_humidity < 85,
         no_rain_before |->
             IF day_idx > 1 THEN DayDry(days[day_idx - 1])
             ELSE UnwrapOr(e.precipitation_7day_total_mm, 0) < 250,
         no_rain_after |-> DayDry(day) /\ next_day_dry,
         temp2    |-> day.high_temp_f + day.low_temp_f,
         wind     |-> day.avg_wind_speed_mph,
         humidity |-> day.avg_humidity]

is_good(q) == q.no_rain_before /\ q.no_rain_after /\ q.temp_ok

score(q) ==
    (IF q.temp_ok THEN 10 ELSE 0) + (IF q.wind_ok THEN 5 ELSE 0)
    + (IF q.humidity_ok THEN 3 ELSE 0) + (IF q.no_rain_before THEN 10 ELSE 0)
    + (IF q.no_rain_after THEN 15 ELSE 0)
    + (IF q.temp2 >= 110 /\ q.temp2 <= 150 THEN 5 ELSE 0)

\* the (date, quality) pairs of the good days among the first five daily entries
GoodDays(e) ==
    LET firstFive == Take(Unwrap(e.forecast).daily_summary, 5)
        assessed  == MapSeq(firstFive,
                            LAMBDA x : [date |-> x.date, quality |-> assess_day_quality(x, e)])
    IN  SelectSeq(assessed, LAMBDA g : is_good(g.quality))

\* Iterator::max_by_key: of several equally maximal elements the last is returned
MaxByKeyScore(good_days) ==
    LET best == {i \in 1..Len(good_days) :
                    \A j \in 1..Len(good_days) :
                        score(good_days[j].quality) <= score(good_days[i].quality)}
    IN  good_days[CHOOSE i \in best : \A j \in best : j <= i]

ApplicationWindowRule(e) ==
    IF IsNone(e.forecast) THEN None
    ELSE IF GoodDays(e) = <<>> THEN None
    ELSE LET best == MaxByKeyScore(GoodDays(e))
         IN  Some(with_action(
                   Recommendation("ApplicationWindowRule", "application_window", 0, "Info",
                   <<DataPoint("Expected Temp", Fmt(best.quality.temp2 \div 2)),
                     DataPoint("Wind Speed", Fmt(best.quality.wind)),
                     DataPoint("Humidity", Fmt(best.quality.humidity))>>), best.date))

\* variant: evaluate without its  env.forecast.as_ref()?  guard
ApplicationWindowRulePanics_unguarded(e) == assess_day_quality_panics(e)

\* the pass aborts when assess_day_quality is reached without a forecast
ApplicationWindowRulePanics(e) ==
    IF IsNone(e.forecast) THEN FALSE
    ELSE Take(Unwrap(e.forecast).daily_summary, 5) # <<>> /\ assess_day_quality_panics(e)

----------------------------------------------------------------------------
(* logic/rules/disease_pressure.rs                                         *)

assess_current_risk(e) ==
    LET hum  == IF IsSome(e.current) THEN Unwrap(e.current).humidity_percent ELSE None
        temp == IF IsSome(e.current) THEN Unwrap(e.current).ambient_temp_f ELSE None
    IN  (IF IsSome(hum) THEN (IF Unwrap(hum) >= 90 THEN 2
                              ELSE IF Unwrap(hum) >= 80 THEN 1 ELSE 0) ELSE 0)
        + (IF IsSome(temp) /\ Unwrap(temp) >= 75 /\ Unwrap(temp) <= 90 THEN 1 ELSE 0)
        + (IF IsSome(e.precipitation_7day_total_mm)
              /\ Unwrap(e.precipitation_7day_total_mm) > 250 THEN 1 ELSE 0)
        + (IF IsSome(e.humidity_7day_avg) /\ Unwrap(e.humidity_7day_avg) >= 80 THEN 1 ELSE 0)

DayRisk(x) ==
    LET high_humidity == x.avg_humidity >= 80
        warm_nights   == x.low_temp_f >= 65
        warm_days     == x.high_temp_f >= 75 /\ x.high_temp_f <= 90
        has_rain      == x.total_precipitation_mm >= 25 \/ x.max_precipitation_prob >= 50
    IN  (IF warm_nights /\ high_humidity THEN 1 ELSE 0)
        + (IF warm_days /\ high_humidity THEN 1 ELSE 0)
        + (IF has_rain /\ warm_days THEN 1 ELSE 0)

assess_forecast_risk(e, t) ==
    IF IsNone(e.forecast) THEN 0
    ELSE LET risk == SumSeq(MapSeq(next_days(Unwrap(e.forecast), t, 5), DayRisk))
         IN  IF risk < 6 THEN risk ELSE 6

DiseasePressureRule(e, p, t) ==
    IF ~is_cool_season(p.grass_type) THEN None
    ELSE IF IsNone(e.forecast) THEN None
    ELSE LET current_risk  == assess_current_risk(e)
             forecast_risk == assess_forecast_risk(e, t)
             combined_risk == current_risk + forecast_risk
             high_humidity_days == consecutive_high_humidity_days(Unwrap(e.forecast), 80)
             hum == IF IsSome(e.current) THEN Unwrap(e.current).humidity_percent ELSE None
         IN  IF combined_risk < 2 THEN None
             ELSE Some(Recommendation("DiseasePressureRule", "disease_pressure_forecast", 0,
                        IF combined_risk >= 5 \/ (current_risk >= 2 /\ forecast_risk >= 3)
                        THEN "Critical"
                        ELSE IF combined_risk >= 3 THEN "Warning" ELSE "Advisory",
                        (IF IsSome(hum) THEN <<DataPoint("Current Humidity", Fmt(Unwrap(hum)))>>
                         ELSE <<>>)
                        \o <<DataPoint("High-Risk Days", Fmt(high_humidity_days))>>
                        \o (IF IsSome(e.humidity_7day_avg)
                            THEN <<DataPoint("7-Day Avg Humidity",
                                             Fmt(Unwrap(e.humidity_7day_avg)))>>
                            ELSE <<>>)))

----------------------------------------------------------------------------
(* datasources/openweathermap.rs: the daily aggregates of an hourly series *)

RECURSIVE SortedSeqOf(_)
SortedSeqOf(S) ==
    IF S = {} THEN <<>>
    ELSE LET m == CHOOSE x \in S : \A y \in S : x <= y
         IN  <<m>> \o SortedSeqOf(S \ {m})

\* the means are floored: every comparison a rule makes with a daily mean is
\* a  >=  or a  <  against a whole number, which flooring preserves
aggregate_day(date, points) ==
    LET n == IF Len(points) > 1 THEN Len(points) ELSE 1
        temps == MapSeq(points, LAMBDA x : x.temp_f)
    IN  [date        |-> date,
         high_temp_f |-> IF temps = <<>> THEN 0 ELSE MaxSeq(temps, temps[1]),
         low_temp_f  |-> IF temps = <<>> THEN 0 ELSE MinSeq(temps, temps[1]),
         avg_humidity |-> SumSeq(MapSeq(points, LAMBDA x : x.humidity_percent)) \div n,
         total_precipitation_mm |-> SumSeq(MapSeq(points, LAMBDA x : x.precipitation_mm)),
         max_precipitation_prob |->
             LET probs == MapSeq(points, LAMBDA x : x.precipitation_prob)
             IN  IF probs = <<>> THEN 0 ELSE MaxSeq(probs, probs[1]),
         avg_wind_speed_mph |-> SumSeq(MapSeq(points, LAMBDA x : x.wind_speed_mph)) \div n]

\* the conditions max_by_key can return from the HashMap of counts: one of the
\* most frequent ones, whichever the iteration order of the map puts last
DominantConditions(points) ==
    LET count(c) == Len(SelectSeq(points, LAMBDA x : x.weather_condition = c))
        seen     == {points[i].weather_condition : i \in 1..Len(points)}
    IN  {c \in seen : \A d \in seen : count(d) <= count(c)}

\* variant: the days in the order their dates are first met in the series
aggregate_daily_unsorted(hourly) ==
    LET firsts == SelectSeq([i \in 1..Len(hourly) |-> i],
                            LAMBDA i : \A j \in 1..(i - 1) :
                                hourly[j].timestamp \div 24 # hourly[i].timestamp \div 24)
    IN  [k \in 1..Len(firsts) |->
            aggregate_day(hourly[firsts[k]].timestamp \div 24,
                          SelectSeq(hourly, LAMBDA x : x.timestamp \div 24
                                                       = hourly[firsts[k]].timestamp \div 24))]

aggregate_daily(hourly) ==
    LET dates == SortedSeqOf({hourly[i].timestamp \div 24 : i \in 1..Len(hourly)})
    IN  [k \in 1..Len(dates) |->
            aggregate_day(dates[k],
                          SelectSeq(hourly, LAMBDA x : x.timestamp \div 24 = dates[k]))]

\* the daily summaries aggregate_daily can return, dominant conditions included
AggregateDailyOutcomes(hourly) ==
    LET days == aggregate_daily(hourly)
        dominant(k) ==
            DominantConditions(SelectSeq(hourly, LAMBDA x : x.timestamp \div 24 = days[k].date))
        seen == {hourly[i].weather_condition : i \in 1..Len(hourly)}
    IN  {[k \in 1..Len(days) |-> days[k] @@ [dominant_condition |-> c[k]]] :
            c \in {x \in [1..Len(days) -> seen] :
                      \A k \in 1..Len(days) : x[k] \in dominant(k)}}

\* OpenWeatherMapClient::convert_response
convert_response(hourly) ==
    [hourly |-> hourly, daily_summary |-> aggregate_daily(hourly)]

----------------------------------------------------------------------------
(* logic/rules/engine.rs: RulesEngine                                      *)

\* RulesEngine::new: the registry, in order
\* datasources/soildata.rs, logic/data_sync.rs

\* the Some values of a sequence of options, in order
SomeValues(s) == MapSeq(SelectSeq(s, IsSome), Unwrap)

\* variant: a difference of exactly 2 F already counts as a change
calculate_trend_inclusive(readings) ==
    IF Len(readings) < 48 THEN "Unknown"
    ELSE LET recent   == SomeValues(MapSeq(SubSeq(readings, 1, 24),
                                           LAMBDA r : r.soil_temp_10_f))
             previous == SomeValues(MapSeq(SubSeq(readings, 25, 48),
                                           LAMBDA r : r.soil_temp_10_f))
         IN  IF recent = <<>> \/ previous = <<>> THEN "Unknown"
             ELSE LET num == SumSeq(recent) * Len(previous) - SumSeq(previous) * Len(recent)
                      den == Len(recent) * Len(previous)
                  IN  IF num >= 2 * den THEN "Rising"
                      ELSE IF num <= 0 - 2 * den THEN "Falling"
                      ELSE "Stable"

\* SoilDataClient::calculate_trend over the readings, newest first; the
\* difference of the two means is compared exactly, as the fraction num / den
calculate_trend(readings) ==
    IF Len(readings) < 48 THEN "Unknown"
    ELSE LET recent   == SomeValues(MapSeq(SubSeq(readings, 1, 24),
                                           LAMBDA r : r.soil_temp_10_f))
             previous == SomeValues(MapSeq(SubSeq(readings, 25, 48),
                                           LAMBDA r : r.soil_temp_10_f))
         IN  IF recent = <<>> \/ previous = <<>> THEN "Unknown"
             ELSE LET num == SumSeq(recent) * Len(previous) - SumSeq(previous) * Len(recent)
                      den == Len(recent) * Len(previous)
                  IN  IF num > 2 * den THEN "Rising"
                      ELSE IF num < 0 - 2 * den THEN "Falling"
                      ELSE "Stable"

\* sum / len of the Some values, on the model's whole-unit grid (rounded down)
AverageOf(options) ==
    LET xs == SomeValues(options)
    IN  IF xs = <<>> THEN None ELSE Some(SumSeq(xs) \div Len(xs))

\* SoilDataClient::fetch_summary, given what fetch_latest and fetch_range return
fetch_summary(latest, readings) ==
    LET summary == [DefaultSummary EXCEPT !.current = latest]
    IN  IF readings = <<>> THEN summary
        ELSE [summary EXCEPT
                !.soil_temp_7day_avg_f =
                    AverageOf(MapSeq(readings, LAMBDA r : r.soil_temp_10_f)),
                !.ambient_temp_7day_avg_f =
                    AverageOf(MapSeq(readings, LAMBDA r : r.ambient_temp_f)),
                !.humidity_7day_avg =
                    AverageOf(MapSeq(readings, LAMBDA r : r.humidity_percent)),
                !.precipitation_7day_total_mm =
                    Some(SumSeq(SelectSeq(SomeValues(MapSeq(readings,
                                              LAMBDA r : r.precipitation_mm)),
                                          LAMBDA x : x >= 0))),
                !.soil_temp_trend = calculate_trend(readings)]

\* DataSyncService::refresh: the summary it returns and stores, given the
\* state of the three sources: soildata is "absent" (no client), "failing" (the
\* fetch is an Err) or "connected"; homeassistant and openweathermap are what
\* their fetch returned, None without a client or on an Err
refresh(w) ==
    LET fetched  == w.soildata = "connected"
        summary  == IF fetched THEN fetch_summary(w.latest, w.readings) ELSE DefaultSummary
        soil     == IF fetched /\ IsSome(summary.current)
                    THEN LET current == Unwrap(summary.current)
                         IN  [EmptyReading EXCEPT
                                !.soil_temp_10_f   = current.soil_temp_10_f,
                                !.soil_moisture_5  = current.soil_moisture_5,
                                !.soil_moisture_10 = current.soil_moisture_10,
                                !.soil_moisture_20 = current.soil_moisture_20]
                    ELSE EmptyReading
        combined == IF IsNone(w.homeassistant) THEN soil
                    ELSE LET ha_reading == Unwrap(w.homeassistant)
                         IN  [soil EXCEPT
                                !.ambient_temp_f   = IF IsSome(ha_reading.ambient_temp_f)
                                                     THEN ha_reading.ambient_temp_f ELSE @,
                                !.humidity_percent = IF IsSome(ha_reading.humidity_percent)
                                                     THEN ha_reading.humidity_percent ELSE @]
    IN  [summary EXCEPT !.current = Some(combined), !.forecast = w.openweathermap]

----------------------------------------------------------------------------
(* logic/rules/engine.rs                                                   *)

Registry ==
    <<"PreEmergentRule", "SpringNitrogenRule", "GrubControlRule", "FertilizerRule",
      "FungicideRule", "FallOverseedingRule", "FallFertilizationRule", "RainDelayRule",
      "IrrigationForecastRule", "HeatStressRule", "ApplicationWindowRule",
      "DiseasePressureRule">>

\* rule.evaluate(env, profile, history) through the trait object
RuleEvaluate(rule, e, p, h, d, t) ==
    CASE rule = "PreEmergentRule"        -> PreEmergentRule(e, p, h, d)
      [] rule = "SpringNitrogenRule"     -> SpringNitrogenRule(e, p, h, d)
      [] rule = "GrubControlRule"        -> GrubControlRule(e, p, h, d)
      [] rule = "FertilizerRule"         -> FertilizerRule(e, p, h, d)
      [] rule = "FungicideRule"          -> FungicideRule(e, p, h, d)
      [] rule = "FallOverseedingRule"    -> FallOverseedingRule(e, p, h, d, t)
      [] rule = "FallFertilizationRule"  -> FallFertilizationRule(e, p, h, d)
      [] rule = "RainDelayRule"          -> RainDelayRule(e, t)
      [] rule = "IrrigationForecastRule" -> IrrigationForecastRule(e, t)
      [] rule = "HeatStressRule"         -> HeatStressRule(e, p, t)
      [] rule = "ApplicationWindowRule"  -> ApplicationWindowRule(e)
      [] rule = "DiseasePressureRule"    -> DiseasePressureRule(e, p, t)

\* the unwrap() calls a rule can reach
RulePanics(rule, e) ==
    rule = "ApplicationWindowRule" /\ ApplicationWindowRulePanics(e)

\* variant: a Some is pushed at the front
FilterMapPush_front(acc, o) == IF IsSome(o) THEN <<Unwrap(o)>> \o acc ELSE acc

\* one step of  filter_map(..).collect(): a Some is pushed at the back
FilterMapPush(acc, o) == IF IsSome(o) THEN Append(acc, Unwrap(o)) ELSE acc

inputs == <<today, now, profile, history, env>>

\* RulesEngine::evaluate is entered
EvaluateBegin ==
    /\ pc = "idle" /\ op = "none"
    /\ pc' = "evaluating" /\ idx' = 1 /\ results' = <<>> /\ calls' = <<>>
    /\ UNCHANGED <<inputs, app_state, op, arg, ret>>

\* the iterator of RulesEngine::evaluate advances by one rule
EvaluateStep ==
    /\ pc = "evaluating"
    /\ LET rule == Registry[idx]
       IN  /\ calls' = Append(calls, rule)
           /\ IF RulePanics(rule, env)
              THEN pc' = "panicked" /\ UNCHANGED <<idx, results>>
              ELSE /\ results' = FilterMapPush(results,
                                    RuleEvaluate(rule, env, profile, history, today, now))
                   /\ idx' = idx + 1
                   /\ pc' = IF idx = Len(Registry) THEN "done" ELSE "evaluating"
    /\ UNCHANGED <<inputs, app_state, op, arg, ret>>

\* WeatherForecast::next_hours applied to the summary's forecast
CallNextHours ==
    /\ pc = "idle" /\ op = "none" /\ IsSome(env.forecast)
    /\ \E n \in {12, 24, 48} :
          /\ op' = "next_hours" /\ arg' = n
          /\ ret' = next_hours(Unwrap(env.forecast), now, n)
    /\ UNCHANGED <<inputs, app_state, pc, idx, results, calls>>

\* WeatherForecast::next_days applied to the summary's forecast
CallNextDays ==
    /\ pc = "idle" /\ op = "none" /\ IsSome(env.forecast)
    /\ \E n \in {1, 2} :
          /\ op' = "next_days" /\ arg' = n
          /\ ret' = next_days(Unwrap(env.forecast), now, n)
    /\ UNCHANGED <<inputs, app_state, pc, idx, results, calls>>

\* DataSyncService::refresh replaces the summary the engine is handed; arg holds
\* the state of the sources, ret the summary returned
Refresh ==
    /\ pc = "idle" /\ op = "none" /\ ret = <<>>
    /\ env' = refresh(arg)
    /\ ret' = Some(env')
    /\ UNCHANGED <<today, now, profile, history, pc, idx, results, calls, op, arg, app_state>>

\* SoilDataClient::calculate_trend applied to the readings of the station
CallCalculateTrend ==
    /\ pc = "idle" /\ op = "none" /\ ret = <<>>
    /\ op' = "calculate_trend"
    /\ ret' = calculate_trend(arg.readings)
    /\ UNCHANGED <<inputs, app_state, pc, idx, results, calls, arg>>

\* WeatherForecast::rain_expected_within applied to the summary's forecast
CallRainExpectedWithin ==
    /\ pc = "idle" /\ op = "none" /\ IsSome(env.forecast)
    /\ \E hours \in {12, 24, 48}, threshold_mm \in {0, 1, 25, 50} :
          /\ op' = "rain_expected_within"
          /\ arg' = [hours |-> hours, threshold_mm |-> threshold_mm]
          /\ ret' = rain_expected_within(Unwrap(env.forecast), now, hours, threshold_mm)
    /\ UNCHANGED <<inputs, app_state, pc, idx, results, calls>>

\* OpenWeatherMapClient::aggregate_daily applied to the hourly series in arg;
\* ret collects the summaries of the calls made so far
CallAggregateDaily ==
    /\ pc = "idle" /\ op \in {"none", "aggregate_daily"} /\ Len(ret) < 2
    /\ op' = "aggregate_daily"
    /\ \E out \in AggregateDailyOutcomes(arg) : ret' = Append(ret, out)
    /\ UNCHANGED <<inputs, app_state, pc, idx, results, calls, arg>>

\* Rule::id of the six rules whose source does not show it; the registry is
\* required to hold no identifier twice, and each is named after its module
MissingRuleId(rule) ==
    CASE rule = "SpringNitrogenRule"     -> "spring_nitrogen"
      [] rule = "FallOverseedingRule"    -> "fall_overseeding"
      [] rule = "RainDelayRule"          -> "rain_delay"
      [] rule = "IrrigationForecastRule" -> "irrigation_forecast"
      [] rule = "HeatStressRule"         -> "heat_stress"
      [] rule = "DiseasePressureRule"    -> "disease_pressure"

\* rule.id() through the trait object
RuleId(rule) ==
    CASE rule = "PreEmergentRule"        -> "pre_emergent"
      [] rule = "GrubControlRule"        -> "grub_control"
      [] rule = "FertilizerRule"         -> "fertilizer_block"
      [] rule = "FungicideRule"          -> "fungicide_risk"
      [] rule = "FallFertilizationRule"  -> "fall_fertilization"
      [] rule = "ApplicationWindowRule"  -> "application_window"
      [] OTHER                           -> MissingRuleId(rule)

\* the first index of the registry from which the test holds, 0 when none does
FirstIndex(hits) ==
    IF hits = {} THEN 0 ELSE CHOOSE i \in hits : \A j \in hits : i <= j

\* variant: the comparison of the identifiers inverted
FindRule_inverted(rule_id) ==
    LET i == FirstIndex({k \in 1..Len(Registry) : RuleId(Registry[k]) # rule_id})
    IN  IF i = 0 THEN None ELSE Some(Registry[i])

\* self.rules.iter().find(|r| r.id() == rule_id): the first rule of the registry
\* with that identifier
FindRule(rule_id) ==
    LET i == FirstIndex({k \in 1..Len(Registry) : RuleId(Registry[k]) = rule_id})
    IN  IF i = 0 THEN None ELSE Some(Registry[i])

\* the identifiers a caller may pass: those of the registry, the name of a
\* struct, the identifier of a recommendation, the empty one, an unknown one
RuleIdArguments ==
    {RuleId(Registry[k]) : k \in 1..Len(Registry)}
        \cup {"GrubControlRule", "spring_n_ready", "", "unknown"}

\* RulesEngine::evaluate_rule: find, then and_then(rule.evaluate); calls holds
\* the rules it evaluated, ret what it returned
CallEvaluateRule ==
    /\ pc = "idle" /\ op = "none"
    /\ \E rule_id \in RuleIdArguments :
          LET found == FindRule(rule_id)
          IN  /\ op' = "evaluate_rule" /\ arg' = rule_id
              /\ IF IsNone(found)
                 THEN calls' = <<>> /\ ret' = None /\ pc' = pc
                 ELSE /\ calls' = <<Unwrap(found)>>
                      /\ IF RulePanics(Unwrap(found), env)
                         THEN pc' = "panicked" /\ ret' = ret
                         ELSE /\ pc' = pc
                              /\ ret' = RuleEvaluate(Unwrap(found), env, profile,
                                                     history, today, now)
    /\ UNCHANGED <<inputs, app_state, idx, results>>

\* EnvironmentalReading::primary_soil_moisture applied to the reading in arg
CallPrimarySoilMoisture ==
    /\ pc = "idle" /\ op = "none"
    /\ op' = "primary_soil_moisture"
    /\ ret' = primary_soil_moisture(arg)
    /\ UNCHANGED <<inputs, app_state, pc, idx, results, calls, arg>>

\* create_application: the application_type column receives the Debug name
CreateApplication ==
    /\ pc = "idle" /\ op = "none"
    /\ op' = "create_application"
    /\ ret' = Some(DebugName(arg.application_type))
    /\ UNCHANGED <<inputs, app_state, pc, idx, results, calls, arg>>

\* row_to_application on the row just written: from_str, or Other for a name
\* it does not know
RowToApplication ==
    /\ pc = "idle" /\ op = "create_application"
    /\ op' = "row_to_application"
    /\ LET parsed == ApplicationType_from_str(Unwrap(ret))
       IN  ret' = Some(IF IsSome(parsed) THEN Unwrap(parsed) ELSE "Other")
    /\ UNCHANGED <<inputs, app_state, pc, idx, results, calls, arg>>

\* create_lawn_profile: the grass_type column receives the Debug name
CreateLawnProfile ==
    /\ pc = "idle" /\ op = "none"
    /\ op' = "create_lawn_profile"
    /\ ret' = Some(DebugName(arg.grass_type))
    /\ UNCHANGED <<inputs, app_state, pc, idx, results, calls, arg>>

\* row_to_lawn_profile on the row just written: from_str, or TallFescue for a
\* name it does not know
RowToLawnProfile ==
    /\ pc = "idle" /\ op = "create_lawn_profile"
    /\ op' = "row_to_lawn_profile"
    /\ LET parsed == GrassType_from_str(Unwrap(ret))
       IN  ret' = Some(IF IsSome(parsed) THEN Unwrap(parsed) ELSE "TallFescue")
    /\ UNCHANGED <<inputs, app_state, pc, idx, results, calls, arg>>

\* the state of the engine and of the queries before anything ran
Fresh ==
    /\ pc = "idle" /\ idx = 1 /\ results = <<>> /\ calls = <<>>
    /\ op = "none" /\ arg = 0 /\ ret = <<>>
    /\ app_state = None

\* the recommendations of one rule among the results of the pass
ResultsOf(rule) == SelectSeq(results, LAMBDA r : r.rule = rule)

----------------------------------------------------------------------------
(* app.rs, main.rs: the App and the terminal loop of run_app.  An index of *)
(* the source counts from 0, a position of a sequence from 1.              *)

\* RulesEngine::evaluate as a function: the first n rules of the registry
RECURSIVE EvaluatePrefix(_, _, _, _, _, _)
EvaluatePrefix(n, e, p, h, d, t) ==
    IF n = 0 THEN <<>>
    ELSE FilterMapPush(EvaluatePrefix(n - 1, e, p, h, d, t),
                       RuleEvaluate(Registry[n], e, p, h, d, t))

evaluate(e, p, h, d, t) == EvaluatePrefix(Len(Registry), e, p, h, d, t)

\* a key event: KeyCode, the character of KeyCode::Char, the CONTROL modifier
Key(code) == [code |-> code, c |-> "", control |-> FALSE]

KeyChar(c) == [code |-> "Char", c |-> c, control |-> FALSE]

Ctrl(c) == [code |-> "Char", c |-> c, control |-> TRUE]

\* Screen::from_key
from_key(c) ==
    CASE c = "1" -> Some("Dashboard")
      [] c = "2" -> Some("Calendar")
      [] c = "3" -> Some("Applications")
      [] c = "4" -> Some("Environmental")
      [] c = "5" -> Some("Recommendations")
      [] c \in {"s", "S"} -> Some("Settings")
      [] OTHER -> None

\* ApplicationsState::next and RecommendationsState::next
next(selected_index, max) ==
    IF max > 0 /\ selected_index < max - 1 THEN selected_index + 1 ELSE selected_index

\* ApplicationsState::prev and RecommendationsState::prev
prev(selected_index) == IF selected_index > 0 THEN selected_index - 1 ELSE selected_index

\* ApplicationsState::cycle_filter
cycle_filter(st) ==
    [selected_index |-> 0,
     filter_type |->
        CASE st.filter_type = None                -> Some("PreEmergent")
          [] st.filter_type = Some("PreEmergent") -> Some("Fertilizer")
          [] st.filter_type = Some("Fertilizer")  -> Some("Fungicide")
          [] st.filter_type = Some("Fungicide")   -> Some("GrubControl")
          [] st.filter_type = Some("GrubControl") -> Some("Overseed")
          [] OTHER                                -> None]

\* ApplicationsScreen::filtered_apps: the rows of the table that is drawn
filtered_apps(applications, filter_type) ==
    IF IsSome(filter_type)
    THEN SelectSeq(applications, LAMBDA x : x.application_type = Unwrap(filter_type))
    ELSE applications

\* App::active_recommendations, RecommendationsScreen::active_recommendations
active_recommendations(recommendations) == SelectSeq(recommendations, is_active)

SettingsFields == <<"Name", "GrassType", "UsdaZone", "SoilType", "LawnSize", "IrrigationType">>

FieldIndex(field) == CHOOSE i \in 1..Len(SettingsFields) : SettingsFields[i] = field

\* SettingsField::next
next_field(field) == SettingsFields[(FieldIndex(field) % Len(SettingsFields)) + 1]

\* SettingsField::prev
prev_field(field) ==
    SettingsFields[((FieldIndex(field) + Len(SettingsFields) - 2) % Len(SettingsFields)) + 1]

get_field_value(p, field) ==
    CASE field = "Name"      -> p.name
      [] field = "GrassType" -> DebugName(p.grass_type)
      [] field = "UsdaZone"  -> p.usda_zone
      [] field = "SoilType"  -> IF IsSome(p.soil_type) THEN DebugName(Unwrap(p.soil_type))
                                ELSE <<>>
      [] field = "LawnSize"  -> IF IsSome(p.lawn_size_sqft)
                                THEN Decimal(Unwrap(p.lawn_size_sqft)) ELSE <<>>
      [] field = "IrrigationType" ->
            IF IsSome(p.irrigation_type) THEN DebugName(Unwrap(p.irrigation_type)) ELSE <<>>

apply_field_value(p, field, value) ==
    CASE field = "Name"      -> IF value # <<>> THEN [p EXCEPT !.name = value] ELSE p
      [] field = "GrassType" -> IF IsSome(GrassType_from_str(value))
                                THEN [p EXCEPT !.grass_type = Unwrap(GrassType_from_str(value))]
                                ELSE p
      [] field = "UsdaZone"  -> IF value # <<>> THEN [p EXCEPT !.usda_zone = value] ELSE p
      [] field = "SoilType"  -> [p EXCEPT !.soil_type = SoilType_from_str(value)]
      [] field = "LawnSize"  -> [p EXCEPT !.lawn_size_sqft = parse_f64(value)]
      [] field = "IrrigationType" ->
            [p EXCEPT !.irrigation_type = IrrigationType_from_str(value)]

switch_screen(a, screen) == [a EXCEPT !.screen = screen]

set_status(a, message) == [a EXCEPT !.status_message = Some(message)]

request_refresh_status_only(a) == set_status(a, "Refreshing data...")

request_refresh(a) == set_status([a EXCEPT !.needs_refresh = TRUE], "Refreshing data...")

\* App::evaluate_rules; the rules read the clock (today, now)
evaluate_rules(a) ==
    IF IsSome(a.lawn_profile)
    THEN [a EXCEPT !.recommendations =
            evaluate(a.env_summary, Unwrap(a.lawn_profile), a.applications, today, now)]
    ELSE a

update_environmental(a, summary) == evaluate_rules([a EXCEPT !.env_summary = summary])

\* App::delete_application: the row leaves the table, the list is read again
\* (ORDER BY application_date DESC, the order the rows are kept in), the
\* rules are evaluated again
delete_application(a, id) ==
    LET rows == SelectSeq(a.db.applications, LAMBDA x : x.id # Some(id))
    IN  evaluate_rules([a EXCEPT !.db.applications = rows,
                                 !.applications = IF IsSome(a.lawn_profile) THEN rows ELSE @])

\* App::save_lawn_profile: update_lawn_profile for a profile with an id,
\* create_lawn_profile (which hands out the id) for one without
save_lawn_profile(a, p) ==
    IF IsSome(p.id)
    THEN evaluate_rules([a EXCEPT !.db.lawn_profile = Some(p), !.lawn_profile = Some(p)])
    ELSE LET created == [p EXCEPT !.id = Some(1)]
         IN  [a EXCEPT !.db.lawn_profile = Some(created), !.lawn_profile = Some(created)]

handle_dashboard_input(a, key) ==
    CASE key.code = "Char" /\ key.c = "r" -> request_refresh(a)
      [] key.code = "Char" /\ key.c = "a" -> switch_screen(a, "Applications")
      [] OTHER -> a

\* with CalendarState::prev_month and next_month
handle_calendar_input(a, key) ==
    CASE key.code = "Left" ->
            [a EXCEPT !.calendar_state =
                IF @.month = 1 THEN [year |-> @.year - 1, month |-> 12]
                ELSE [@ EXCEPT !.month = @ - 1]]
      [] key.code = "Right" ->
            [a EXCEPT !.calendar_state =
                IF @.month = 12 THEN [year |-> @.year + 1, month |-> 1]
                ELSE [@ EXCEPT !.month = @ + 1]]
      [] key.code = "Char" /\ key.c = "a" -> switch_screen(a, "Applications")
      [] OTHER -> a

handle_applications_input(a, key) ==
    LET count == Len(a.applications)
        st    == a.applications_state
    IN  CASE key.code = "Up" ->
                [a EXCEPT !.applications_state.selected_index = prev(@)]
          [] key.code = "Down" ->
                [a EXCEPT !.applications_state.selected_index = next(@, count)]
          [] key.code = "Char" /\ key.c = "f" ->
                [a EXCEPT !.applications_state = cycle_filter(@)]
          [] key.code = "Char" /\ key.c = "d" ->
                IF st.selected_index < count
                      /\ IsSome(a.applications[st.selected_index + 1].id)
                THEN delete_application(a, Unwrap(a.applications[st.selected_index + 1].id))
                ELSE a
          [] OTHER -> a

handle_environmental_input(a, key) ==
    IF key.code = "Char" /\ key.c = "r" THEN request_refresh(a) ELSE a

handle_recommendations_input(a, key) ==
    LET count == Len(active_recommendations(a.recommendations))
        i     == a.recommendations_state.selected_index
    IN  CASE key.code = "Up" ->
                [a EXCEPT !.recommendations_state.selected_index = prev(@)]
          [] key.code = "Down" ->
                [a EXCEPT !.recommendations_state.selected_index = next(@, count)]
          [] key.code = "Enter" ->
                IF i < Len(a.recommendations)
                THEN [a EXCEPT !.recommendations[i + 1].addressed = TRUE] ELSE a
          [] key.code = "Char" /\ key.c = "x" ->
                IF i < Len(a.recommendations)
                THEN [a EXCEPT !.recommendations[i + 1].dismissed = TRUE] ELSE a
          [] OTHER -> a

\* with SettingsState::start_editing, cancel_editing, finish_editing
handle_settings_input(a, key) ==
    LET st == a.settings_state
    IN  IF st.editing
        THEN CASE key.code = "Esc" ->
                    [a EXCEPT !.settings_state.editing = FALSE,
                              !.settings_state.edit_buffer = <<>>]
               [] key.code = "Enter" ->
                    LET finished == [a EXCEPT !.settings_state.editing = FALSE,
                                              !.settings_state.profile_modified = TRUE,
                                              !.settings_state.edit_buffer = <<>>]
                    IN  IF IsSome(a.lawn_profile)
                        THEN save_lawn_profile(finished,
                                apply_field_value(Unwrap(a.lawn_profile), st.focused_field,
                                                  st.edit_buffer))
                        ELSE finished
               [] key.code = "Backspace" ->
                    [a EXCEPT !.settings_state.edit_buffer =
                                    SubSeq(@, 1, IF @ = <<>> THEN 0 ELSE Len(@) - 1)]
               [] key.code = "Char" ->
                    [a EXCEPT !.settings_state.edit_buffer = Append(@, key.c)]
               [] OTHER -> a
        ELSE CASE key.code = "Up" ->
                    [a EXCEPT !.settings_state.focused_field = prev_field(@)]
               [] key.code \in {"Down", "Tab"} ->
                    [a EXCEPT !.settings_state.focused_field = next_field(@)]
               [] key.code = "Enter" ->
                    IF IsSome(a.lawn_profile)
                    THEN [a EXCEPT !.settings_state.editing = TRUE,
                                   !.settings_state.edit_buffer =
                                        get_field_value(Unwrap(a.lawn_profile),
                                                        st.focused_field)]
                    ELSE a
               [] key.code = "Char" /\ key.c = "s" /\ key.control ->
                    IF IsSome(a.lawn_profile)
                    THEN set_status(save_lawn_profile(a, Unwrap(a.lawn_profile)),
                                    "Profile saved")
                    ELSE a
               [] OTHER -> a

handle_screen_input(a, key) ==
    CASE a.screen = "Dashboard"       -> handle_dashboard_input(a, key)
      [] a.screen = "Calendar"        -> handle_calendar_input(a, key)
      [] a.screen = "Applications"    -> handle_applications_input(a, key)
      [] a.screen = "Environmental"   -> handle_environmental_input(a, key)
      [] a.screen = "Recommendations" -> handle_recommendations_input(a, key)
      [] a.screen = "Settings"        -> handle_settings_input(a, key)

global_key_handling_unguarded(a, key) ==
    IF key.code = "Char" /\ key.c = "q"
        THEN [a EXCEPT !.should_quit = TRUE]
    ELSE IF key.code = "Char" /\ key.c = "c" /\ key.control
        THEN [a EXCEPT !.should_quit = TRUE]
    ELSE IF key.code = "Esc"
        THEN switch_screen(a, "Dashboard")
    ELSE IF key.code = "Char" /\ IsSome(from_key(key.c))
        THEN switch_screen(a, Unwrap(from_key(key.c)))
    ELSE handle_screen_input(a, key)

\* run_app: the match on key.code, its arms tried in order
global_key_handling(a, key) ==
    LET editing == a.settings_state.editing
    IN  IF key.code = "Char" /\ key.c = "q" /\ ~editing
            THEN [a EXCEPT !.should_quit = TRUE]
        ELSE IF key.code = "Char" /\ key.c = "c" /\ key.control
            THEN [a EXCEPT !.should_quit = TRUE]
        ELSE IF key.code = "Esc" /\ ~editing
            THEN switch_screen(a, "Dashboard")
        ELSE IF key.code = "Char" /\ ~editing
            THEN IF IsSome(from_key(key.c)) THEN switch_screen(a, Unwrap(from_key(key.c)))
                 ELSE handle_screen_input(a, key)
        ELSE handle_screen_input(a, key)

\* the longest text the edit buffer is let grow to by typing
MaxBuffer == 2

\* event::poll returned true and event::read a key of the keyboard in use
KeyEvent ==
    /\ pc = "input"
    /\ \E key \in arg.keys :
          /\ key.code = "Char" /\ app_state.settings_state.editing
                => Len(app_state.settings_state.edit_buffer) < MaxBuffer
          /\ app_state' = global_key_handling(app_state, key)
          /\ op' = "key" /\ ret' = Some(key)
    /\ pc' = "refresh" /\ calls' = <<>>
    /\ UNCHANGED <<inputs, idx, results, arg>>

\* event::poll timed out after 100 ms
PollTimeout ==
    /\ pc = "input"
    /\ pc' = "refresh" /\ op' = "timeout" /\ ret' = None /\ calls' = <<>>
    /\ UNCHANGED <<inputs, idx, results, arg, app_state>>

\* if app.needs_refresh: the flags are set and data_sync.refresh() awaited;
\* calls holds the refreshes of the current iteration of the loop
BeginRefresh ==
    /\ pc = "refresh" /\ app_state.needs_refresh
    /\ app_state' = [app_state EXCEPT !.needs_refresh = FALSE, !.refreshing = TRUE]
    /\ pc' = "refreshing"
    /\ calls' = Append(calls, "refresh")
    /\ UNCHANGED <<inputs, idx, results, op, arg, ret>>

\* what follows the refresh handling: break when should_quit, else loop
LoopOrBreak(a) == IF a.should_quit THEN "exited" ELSE "input"

\* data_sync.refresh() returned: Ok with one of the summaries, or an Err
EndRefresh ==
    /\ pc = "refreshing"
    /\ \E outcome \in {None} \cup {Some(x) : x \in arg.summaries} :
          LET a == IF IsSome(outcome)
                   THEN set_status(update_environmental(app_state, Unwrap(outcome)),
                                   "Data refreshed")
                   ELSE set_status(app_state, "Refresh failed")
          IN  app_state' = [a EXCEPT !.refreshing = FALSE]
    /\ pc' = LoopOrBreak(app_state')
    /\ UNCHANGED <<inputs, idx, results, calls, op, arg, ret>>

\* no refresh was requested
NoRefresh ==
    /\ pc = "refresh" /\ ~app_state.needs_refresh
    /\ pc' = LoopOrBreak(app_state)
    /\ UNCHANGED <<inputs, idx, results, calls, op, arg, ret, app_state>>

----------------------------------------------------------------------------
(* Inputs of the model                                                     *)

\* the year Local::now() falls in
CurrentYear == 2026

\* the longest application history handed to the engine
MaxHistory == 2

\* the longest hourly series of a forecast
MaxPoints == 3

\* every history of at most MaxHistory applications drawn from a set
Histories(apps) == UNION {[1..n -> apps] : n \in 0..MaxHistory}

Profile(g) == [grass_type |-> g]

Reading(soil10, m5, m10, m20, ambient, humidity) ==
    [soil_temp_10_f |-> soil10, soil_moisture_5 |-> m5, soil_moisture_10 |-> m10,
     soil_moisture_20 |-> m20, ambient_temp_f |-> ambient, humidity_percent |-> humidity]

Summary(current, soil_avg, humidity_avg, precip_total, forecast) ==
    [DefaultSummary EXCEPT !.current = current, !.soil_temp_7day_avg_f = soil_avg,
                           !.humidity_7day_avg = humidity_avg,
                           !.precipitation_7day_total_mm = precip_total,
                           !.forecast = forecast]

Point(ts, temp, humidity, precip, prob, wind) ==
    [timestamp |-> ts, temp_f |-> temp, humidity_percent |-> humidity,
     precipitation_mm |-> precip, precipitation_prob |-> prob, wind_speed_mph |-> wind]

\* a wet, a hot and a fair three-day series starting at hour t
WetSeries(t) ==
    <<Point(t + 6, 70, 88, 30, 80, 6), Point(t + 30, 78, 85, 0, 20, 6),
      Point(t + 54, 80, 84, 10, 40, 12)>>

HotSeries(t) ==
    <<Point(t + 6, 96, 40, 0, 0, 4), Point(t + 30, 91, 45, 0, 10, 4),
      Point(t + 54, 88, 50, 0, 10, 4)>>

FairSeries(t) ==
    <<Point(t + 3, 58, 60, 0, 0, 4), Point(t + 9, 72, 60, 0, 10, 4),
      Point(t + 30, 70, 55, 0, 0, 12), Point(t + 54, 66, 50, 0, 0, 3)>>

EngineForecasts(t) ==
    {None} \cup {Some(convert_response(x)) : x \in {WetSeries(t), HotSeries(t), FairSeries(t)}}

EngineReadings ==
    {None, Some(EmptyReading),
     Some(Reading(Some(70), None, Some(8), None, Some(92), Some(85))),
     Some(Reading(Some(57), None, Some(25), None, Some(72), Some(60)))}

EngineSummaries(t) ==
    {Summary(c, s, hm, None, f) :
        c \in EngineReadings, s \in {None, Some(57), Some(70)},
        hm \in {None, Some(82)}, f \in EngineForecasts(t)}

EngineDates ==
    {Date(CurrentYear, 3, 15), Date(CurrentYear, 6, 20), Date(CurrentYear, 9, 20),
     Date(CurrentYear, 10, 25), Date(CurrentYear, 12, 10)}

EngineApps ==
    {Application("PreEmergent", Date(CurrentYear, 3, 1)),
     Application("Fertilizer", Date(CurrentYear, 9, 5))}

\* the engine over summaries of every shape, the empty one included
Init ==
    /\ today \in EngineDates
    /\ now = 25
    /\ profile \in {Profile("TallFescue"), Profile("Bermuda")}
    /\ history \in Histories(EngineApps)
    /\ env \in EngineSummaries(25)
    /\ Fresh

Next == EvaluateBegin \/ EvaluateStep

Spec == Init /\ [][Next]_vars

----------------------------------------------------------------------------
(* Forecasts of every shape: series of at most MaxPoints points in time    *)
(* order, before, inside, at the end of and beyond the horizons            *)

RainOffsets == {0 - 3, 6, 12, 30, 48}

\* (probability, precipitation) of a point
RainAmounts == {<<0, 0>>, <<20, 0>>, <<30, 0>>, <<50, 0>>, <<80, 0>>, <<10, 30>>}

RainPoints(t) ==
    {Point(t + o, 70, 60, a[2], a[1], 5) : o \in RainOffsets, a \in RainAmounts}

RainSeries(t) ==
    UNION {{x \in [1..n -> RainPoints(t)] :
                \A i \in 1..(n - 1) : x[i].timestamp < x[i + 1].timestamp} : n \in 0..MaxPoints}

InitForecast ==
    /\ today = Date(CurrentYear, 6, 20)
    /\ now = 25
    /\ profile = Profile("TallFescue")
    /\ history = <<>>
    /\ env \in {Summary(None, None, None, None, Some(convert_response(x))) :
                    x \in RainSeries(25)}
    /\ Fresh

NextForecast == EvaluateBegin \/ EvaluateStep \/ CallNextHours \/ CallNextDays

SpecForecast == InitForecast /\ [][NextForecast]_vars

\* the same forecasts under the rain query
NextRain == CallRainExpectedWithin

SpecRain == InitForecast /\ [][NextRain]_vars

----------------------------------------------------------------------------
(* Spring: the pre-emergent and the spring nitrogen rules                  *)

SpringDates == {Date(CurrentYear, 3, 15), Date(CurrentYear, 4, 20)}

SpringApps ==
    {Application("PreEmergent", Date(CurrentYear, 3, 1)),
     Application("PreEmergent", Date(CurrentYear - 1, 3, 1)),
     Application("Fertilizer", Date(CurrentYear, 2, 1)),
     Application("Fertilizer", Date(CurrentYear, 1, 15)),
     Application("Fertilizer", Date(CurrentYear - 1, 4, 1))}

SpringSoilAverages == {None} \cup {Some(x) : x \in {45, 50, 54, 55, 57, 60, 61, 65, 66, 70, 71}}

SpringReadings ==
    {None, Some(EmptyReading), Some(Reading(Some(58), None, Some(25), None, Some(60), Some(60)))}

InitSpring ==
    /\ today \in SpringDates
    /\ now = 25
    /\ profile \in {Profile("TallFescue"), Profile("Bermuda")}
    /\ history \in Histories(SpringApps)
    /\ env \in {Summary(c, s, None, None, None) : c \in SpringReadings, s \in SpringSoilAverages}
    /\ Fresh

NextSpring == EvaluateBegin \/ EvaluateStep

SpecSpring == InitSpring /\ [][NextSpring]_vars

----------------------------------------------------------------------------
(* Summer: the fertilizer stress rule over temperatures and moistures      *)

FertAmbients == {None} \cup {Some(x) : x \in {80, 85, 86, 90, 91, 95}}

FertReadings ==
    {Reading(s, m5, m10, m20, a, None) :
        s \in {None, Some(70)}, m5 \in {None, Some(3), Some(7)},
        m10 \in {None} \cup {Some(x) : x \in {3, 5, 7, 10, 25, 40, 45}},
        m20 \in {None, Some(3)}, a \in FertAmbients}

InitFert ==
    /\ today = Date(CurrentYear, 7, 20)
    /\ now = 25
    /\ profile \in {Profile("TallFescue"), Profile("Bermuda")}
    /\ history = <<>>
    /\ env \in {Summary(Some(c), None, None, None, None) : c \in FertReadings}
    /\ Fresh

NextFert == EvaluateBegin \/ EvaluateStep

SpecFert == InitFert /\ [][NextFert]_vars

----------------------------------------------------------------------------
(* The seasonal windows: the days around their first and last dates        *)

WindowDates ==
    {Date(CurrentYear, 5, 14), Date(CurrentYear, 5, 15), Date(CurrentYear, 7, 4),
     Date(CurrentYear, 7, 5), Date(CurrentYear, 8, 14), Date(CurrentYear, 8, 15),
     Date(CurrentYear, 8, 31), Date(CurrentYear, 9, 1), Date(CurrentYear, 10, 31),
     Date(CurrentYear, 11, 1), Date(CurrentYear, 11, 30), Date(CurrentYear, 12, 1)}

WindowApps ==
    {Application("GrubControl", Date(CurrentYear, 5, 20)),
     Application("Overseed", Date(CurrentYear, 9, 1)),
     Application("Fertilizer", Date(CurrentYear, 9, 5))}

WindowReadings ==
    {None, Some(Reading(Some(62), None, Some(25), None, Some(70), Some(60)))}

InitWindow ==
    /\ today \in WindowDates
    /\ now = 25
    /\ profile \in {Profile("TallFescue"), Profile("Bermuda")}
    /\ history \in Histories(WindowApps)
    /\ env \in {Summary(c, s, None, None, None) :
                    c \in WindowReadings, s \in {None, Some(48), Some(62), Some(80)}}
    /\ Fresh

NextWindow == EvaluateBegin \/ EvaluateStep

SpecWindow == InitWindow /\ [][NextWindow]_vars

----------------------------------------------------------------------------
(* Histories with and without a qualifying application                     *)

DupDates == {Date(CurrentYear, 3, 15), Date(CurrentYear, 6, 1), Date(CurrentYear, 9, 20)}

DupApps ==
    {Application("PreEmergent", Date(CurrentYear, 1, 10)),
     Application("PreEmergent", Date(CurrentYear - 1, 3, 1)),
     Application("GrubControl", Date(CurrentYear, 5, 15)),
     Application("GrubControl", Date(CurrentYear, 5, 14)),
     Application("GrubControl", Date(CurrentYear - 1, 6, 1)),
     Application("Insecticide", Date(CurrentYear, 5, 20)),
     Application("Overseed", Date(CurrentYear, 8, 15)),
     Application("Overseed", Date(CurrentYear, 8, 14)),
     Application("Fertilizer", Date(CurrentYear, 3, 1))}

DupReadings ==
    {None, Some(Reading(Some(60), None, Some(25), None, Some(70), Some(60)))}

InitDup ==
    /\ today \in DupDates
    /\ now = 25
    /\ profile = Profile("TallFescue")
    /\ history \in Histories(DupApps)
    /\ env \in {Summary(c, s, None, None, None) :
                    c \in DupReadings, s \in {None, Some(57), Some(62)}}
    /\ Fresh

NextDup == EvaluateBegin \/ EvaluateStep

SpecDup == InitDup /\ [][NextDup]_vars

----------------------------------------------------------------------------
(* Fall: the fertilization program over its three phases                   *)

FallDates ==
    {Date(CurrentYear, 9, 20), Date(CurrentYear, 10, 5), Date(CurrentYear, 10, 22),
     Date(CurrentYear, 11, 10), Date(CurrentYear, 11, 22)}

FallApps ==
    {Application("Fertilizer", Date(CurrentYear, 9, 5)),
     Application("Fertilizer", Date(CurrentYear, 10, 1)),
     Application("Fertilizer", Date(CurrentYear, 11, 1)),
     Application("Fertilizer", Date(CurrentYear, 8, 20)),
     Application("Fertilizer", Date(CurrentYear - 1, 10, 1))}

InitFall ==
    /\ today \in FallDates
    /\ now = 25
    /\ profile = Profile("TallFescue")
    /\ history \in Histories(FallApps)
    /\ env \in {Summary(None, s, None, None, None) :
                    s \in {None, Some(42), Some(55), Some(70)}}
    /\ Fresh

NextFall == EvaluateBegin \/ EvaluateStep

SpecFall == InitFall /\ [][NextFall]_vars

----------------------------------------------------------------------------
(* Every day of the fall fertilization window, and the days around it      *)

PhaseDates ==
    {Date(CurrentYear, 8, 31), Date(CurrentYear, 12, 1)}
        \cup {Date(CurrentYear, 9, d) : d \in 1..30}
        \cup {Date(CurrentYear, 10, d) : d \in 1..31}
        \cup {Date(CurrentYear, 11, d) : d \in 1..30}

PhaseApps ==
    {Application("Fertilizer", Date(CurrentYear, 9, 5)),
     Application("Fertilizer", Date(CurrentYear, 10, 1)),
     Application("Fertilizer", Date(CurrentYear, 8, 20))}

InitPhase ==
    /\ today \in PhaseDates
    /\ now = 25
    /\ profile = Profile("TallFescue")
    /\ history \in Histories(PhaseApps)
    /\ env \in {Summary(None, s, None, None, None) : s \in {None, Some(42), Some(55)}}
    /\ Fresh

NextPhase == EvaluateBegin \/ EvaluateStep

SpecPhase == InitPhase /\ [][NextPhase]_vars

----------------------------------------------------------------------------
(* Forecasts of up to MaxDays days, each ideal, warm, windy or rainy        *)

\* the longest daily series of a forecast
MaxDays == 6

DayKinds == {"ideal", "warm", "windy", "rainy"}

\* the one hourly point of day k (0-based) of a kind
KindPoint(t, k, kind) ==
    CASE kind = "ideal" -> Point(t + 24 * k + 6, 65, 60, 0, 0, 4)
      [] kind = "warm"  -> Point(t + 24 * k + 6, 80, 60, 0, 0, 4)
      [] kind = "windy" -> Point(t + 24 * k + 6, 65, 60, 0, 0, 12)
      [] kind = "rainy" -> Point(t + 24 * k + 6, 65, 90, 30, 80, 4)

DaySeries(t) ==
    UNION {{[k \in 1..n |-> KindPoint(t, k - 1, x[k])] : x \in [1..n -> DayKinds]} :
              n \in 0..MaxDays}

InitDays ==
    /\ today = Date(CurrentYear, 6, 20)
    /\ now = 25
    /\ profile = Profile("TallFescue")
    /\ history = <<>>
    /\ env \in {Summary(None, None, None, None, Some(convert_response(x))) :
                    x \in DaySeries(25)}
    /\ Fresh

NextDays == EvaluateBegin \/ EvaluateStep

SpecDays == InitDays /\ [][NextDays]_vars

----------------------------------------------------------------------------
(* The sources of a refresh: the soil-data station with its readings of    *)
(* the last seven days (newest first), Home Assistant, OpenWeatherMap      *)

SoilRow(soil10, ambient, precip) ==
    Reading(soil10, None, Some(25), None, ambient, Some(60)) @@ [precipitation_mm |-> precip]

\* n readings: the newer window holds r1 then r2 (12 each), the older window
\* p1 then p2, every older reading 50 F
ReadingsOf(n, r1, r2, p1, p2) ==
    [i \in 1..n |-> SoilRow(IF i <= 12 THEN r1 ELSE IF i <= 24 THEN r2
                             ELSE IF i <= 36 THEN p1 ELSE IF i <= 48 THEN p2 ELSE Some(50),
                             Some(70), Some(0))]

ReadingCounts == {0, 1, 47, 48, 49}

WindowTemps == {None, Some(50), Some(52), Some(55)}

StationReadings ==
    {ReadingsOf(n, r1, r2, p1, p2) :
        n \in ReadingCounts, r1 \in WindowTemps, r2 \in WindowTemps,
        p1 \in WindowTemps, p2 \in WindowTemps}

Sources ==
    {[soildata |-> c, latest |-> None, readings |-> <<>>, homeassistant |-> None,
      openweathermap |-> None] : c \in {"absent", "failing"}}
    \cup
    {[soildata |-> "connected",
      latest |-> IF x = <<>> THEN None ELSE Some(x[1]),
      readings |-> x, homeassistant |-> h, openweathermap |-> None] :
        x \in StationReadings,
        h \in {None, Some([ambient_temp_f |-> Some(72), humidity_percent |-> None])}}

\* DataSyncService::new: the stored summary is the default one
InitSync ==
    /\ today = Date(CurrentYear, 3, 15)
    /\ now = 25
    /\ profile = Profile("TallFescue")
    /\ history = <<>>
    /\ env = DefaultSummary
    /\ pc = "idle" /\ idx = 1 /\ results = <<>> /\ calls = <<>>
    /\ op = "none" /\ arg \in Sources /\ ret = <<>>
    /\ app_state = None

NextSync == Refresh \/ CallCalculateTrend \/ EvaluateBegin \/ EvaluateStep

SpecSync == InitSync /\ [][NextSync]_vars

----------------------------------------------------------------------------
(* Hourly series in any order, several points to a day, for the aggregation *)

DailyTimes == {30, 40, 50, 80}

DailyPoints ==
    {Point(ts, temp, 60, IF c = "Rain" THEN 30 ELSE 0, IF c = "Rain" THEN 80 ELSE 0, 5)
        @@ [weather_condition |-> c] :
        ts \in DailyTimes, temp \in {60, 70}, c \in {"Clear", "Rain"}}

DailySeries ==
    UNION {{x \in [1..n -> DailyPoints] :
                \A i, j \in 1..n : i # j => x[i].timestamp # x[j].timestamp} : n \in 0..MaxPoints}

InitDaily ==
    /\ today = Date(CurrentYear, 6, 20)
    /\ now = 25
    /\ profile = Profile("TallFescue")
    /\ history = <<>>
    /\ env = DefaultSummary
    /\ pc = "idle" /\ idx = 1 /\ results = <<>> /\ calls = <<>>
    /\ op = "none" /\ arg \in DailySeries /\ ret = <<>>
    /\ app_state = None

NextDaily == CallAggregateDaily

SpecDaily == InitDaily /\ [][NextDaily]_vars

----------------------------------------------------------------------------
(* Every day of the grub control and of the overseeding window             *)

SeverityDates ==
    {Date(CurrentYear, 5, d) : d \in 15..31} \cup {Date(CurrentYear, 6, d) : d \in 1..30}
        \cup {Date(CurrentYear, 7, d) : d \in 1..4}
        \cup {Date(CurrentYear, 8, d) : d \in 15..31} \cup {Date(CurrentYear, 9, d) : d \in 1..30}
        \cup {Date(CurrentYear, 10, d) : d \in 1..31}

SeverityApps ==
    {Application("GrubControl", Date(CurrentYear, 6, 10)),
     Application("Fertilizer", Date(CurrentYear, 9, 5))}

InitSeverity ==
    /\ today \in SeverityDates
    /\ now = 25
    /\ profile = Profile("TallFescue")
    /\ history \in Histories(SeverityApps)
    /\ env \in {Summary(Some(Reading(Some(60), None, Some(25), None, Some(70), Some(60))),
                         s, None, None, None) :
                    s \in {None} \cup {Some(x) : x \in {45, 52, 57, 62, 64, 70, 78}}}
    /\ Fresh

NextSeverity == EvaluateBegin \/ EvaluateStep

SpecSeverity == InitSeverity /\ [][NextSeverity]_vars

----------------------------------------------------------------------------
(* A single rule looked up by its identifier, over the inputs of the pass  *)

NextRule == CallEvaluateRule

SpecRule == Init /\ [][NextRule]_vars

----------------------------------------------------------------------------
(* Readings with all five moisture probes, each absent or reporting        *)

ProbeValues == {None, Some(8), Some(25), Some(40)}

\* the moisture channels of an EnvironmentalReading, the others absent
ProbeReadings ==
    {[EmptyReading EXCEPT !.soil_moisture_5 = m5, !.soil_moisture_10 = m10,
                          !.soil_moisture_20 = m20]
         @@ [soil_moisture_50 |-> m50, soil_moisture_100 |-> m100] :
        m5 \in ProbeValues, m10 \in ProbeValues, m20 \in ProbeValues,
        m50 \in ProbeValues, m100 \in ProbeValues}

InitMoisture ==
    /\ today = Date(CurrentYear, 6, 15) /\ now = 25
    /\ profile = Profile("TallFescue") /\ history = <<>> /\ env = DefaultSummary
    /\ pc = "idle" /\ idx = 1 /\ results = <<>> /\ calls = <<>>
    /\ op = "none" /\ ret = <<>>
    /\ arg \in ProbeReadings
    /\ app_state = None

NextMoisture == CallPrimarySoilMoisture

SpecMoisture == InitMoisture /\ [][NextMoisture]_vars

----------------------------------------------------------------------------
(* An application and a profile of every type, stored and read back        *)

InitStore ==
    /\ today = Date(CurrentYear, 6, 15) /\ now = 25
    /\ profile = Profile("TallFescue") /\ history = <<>> /\ env = DefaultSummary
    /\ pc = "idle" /\ idx = 1 /\ results = <<>> /\ calls = <<>>
    /\ op = "none" /\ ret = <<>>
    /\ arg \in [application_type : ApplicationType, grass_type : GrassType]
    /\ app_state = None

NextStore == CreateApplication \/ RowToApplication \/ CreateLawnProfile \/ RowToLawnProfile

SpecStore == InitStore /\ [][NextStore]_vars

----------------------------------------------------------------------------
(* Sessions at the terminal: the App as main hands it to run_app, brought  *)
(* to a screen, and the keys the session uses                              *)

StoredProfile ==
    [id |-> Some(1), name |-> <<"y">>, grass_type |-> "TallFescue",
     usda_zone |-> <<"7", "a">>, soil_type |-> Some("Clay"), lawn_size_sqft |-> Some(50),
     irrigation_type |-> None]

\* the i-th row written to the applications table: every third a pre-emergent
StoredRow(i) ==
    Application(IF i % 3 = 0 THEN "PreEmergent" ELSE "Fertilizer", Date(CurrentYear, i, 10))
        @@ [id |-> Some(i)]

\* get_applications_for_profile: ORDER BY application_date DESC
StoredRows(n) == [k \in 1..n |-> StoredRow(n + 1 - k)]

WetSummary ==
    Summary(Some(Reading(Some(70), None, Some(8), None, Some(92), Some(85))),
            Some(70), Some(82), None, Some(convert_response(WetSeries(25))))

FairSummary ==
    Summary(Some(Reading(Some(57), None, Some(25), None, Some(72), Some(60))),
            Some(57), None, None, Some(convert_response(FairSeries(25))))

\* App::new, then main up to run_app: the first refresh, when it succeeds, is
\* handed to update_environmental; the status line names the connections
AppNew(p, rows, first) ==
    LET new ==
            [screen |-> "Dashboard", should_quit |-> FALSE,
             db |-> [lawn_profile |-> Some(p), applications |-> rows],
             lawn_profile |-> Some(p), applications |-> rows,
             env_summary |-> DefaultSummary, recommendations |-> <<>>,
             calendar_state |-> [year |-> today.year, month |-> today.month],
             applications_state |-> [selected_index |-> 0, filter_type |-> None],
             recommendations_state |-> [selected_index |-> 0],
             settings_state |-> [focused_field |-> "Name", editing |-> FALSE,
                                 edit_buffer |-> <<>>, profile_modified |-> FALSE],
             status_message |-> None, refreshing |-> FALSE, needs_refresh |-> FALSE]
    IN  set_status(IF IsSome(first) THEN update_environmental(new, Unwrap(first)) ELSE new,
                   "SoilData: OK | HomeAssistant: OFFLINE")

ApplicationsKeyboard == {Key("Up"), Key("Down"), KeyChar("f"), KeyChar("d")}

RecommendationsKeyboard == {Key("Up"), Key("Down"), Key("Enter"), KeyChar("x")}

TypingKeyboard ==
    {Key("Enter"), Key("Esc"), Key("Backspace"), KeyChar("q"), KeyChar("s"), KeyChar("1"),
     Ctrl("s"), Ctrl("c")}

FieldKeyboard ==
    {Key("Up"), Key("Down"), Key("Tab"), Key("Enter"), Key("Esc"), Key("Backspace"),
     Ctrl("c")}

RefreshKeyboard == {KeyChar("r"), KeyChar("a"), KeyChar("1"), KeyChar("4"), KeyChar("5")}

Session(screen, keys, rows, first, summaries) ==
    [screen |-> screen, keys |-> keys, rows |-> rows, first |-> first,
     summaries |-> summaries]

Sessions ==
    {Session("Applications", ApplicationsKeyboard, n, Some(FairSummary), {}) :
        n \in 0..(MaxHistory + 1)}
    \cup {Session("Recommendations", RecommendationsKeyboard, 0, Some(WetSummary), {}),
          Session("Dashboard", TypingKeyboard, 0, Some(FairSummary), {}),
          Session("Settings", FieldKeyboard, 0, Some(FairSummary), {})}
    \cup {Session("Dashboard", RefreshKeyboard, 1, first, {WetSummary, FairSummary}) :
            first \in {None, Some(FairSummary)}}

InitApp ==
    /\ today = Date(CurrentYear, 6, 20) /\ now = 25
    /\ profile = StoredProfile /\ history = <<>> /\ env = DefaultSummary
    /\ pc = "input" /\ idx = 1 /\ results = <<>> /\ calls = <<>>
    /\ op = "none" /\ ret = <<>>
    /\ arg \in Sessions
    /\ app_state = switch_screen(AppNew(StoredProfile, StoredRows(arg.rows), arg.first),
                                 arg.screen)

NextApp == KeyEvent \/ PollTimeout \/ BeginRefresh \/ EndRefresh \/ NoRefresh

SpecApp == InitApp /\ [][NextApp]_vars

----------------------------------------------------------------------------
(* Claims about the engine pass                                            *)

RegistryIndex(rule) == CHOOSE i \in 1..Len(Registry) : Registry[i] = rule

\* the rules of the registry that return a recommendation on the inputs
Returning ==
    {i \in 1..Len(Registry) :
        IsSome(RuleEvaluate(Registry[i], env, profile, history, today, now))}

\* C1: a pass invokes the rules one by one in registry order, each once; when
\* it is done the result holds exactly the recommendations of the rules that
\* returned one (K of them when K rules returned one), in registry order.
C1_EvaluateInRegistryOrder ==
    /\ calls = SubSeq(Registry, 1, Len(calls))
    /\ pc = "done" =>
          /\ calls = Registry
          /\ Len(results) = Cardinality(Returning)
          /\ \A i \in 1..Len(results) :
                Some(results[i]) =
                    RuleEvaluate(results[i].rule, env, profile, history, today, now)
          /\ \A i, j \in 1..Len(results) :
                i < j => RegistryIndex(results[i].rule) < RegistryIndex(results[j].rule)

\* a finished pass in which some rules, not all, returned a recommendation
C1_Witness ==
    pc = "done" /\ Len(results) >= 3 /\ Len(results) < Len(Registry)

\* the summary with the current reading, the averages and the forecast absent
EmptySummary(e) ==
    /\ IsNone(e.current) /\ IsNone(e.soil_temp_7day_avg_f)
    /\ IsNone(e.ambient_temp_7day_avg_f) /\ IsNone(e.humidity_7day_avg)
    /\ IsNone(e.forecast)

\* a summary field the rule needs is absent
RequiredAbsent(rule, e) ==
    LET cur(field)  == IsNone(e.current) \/ IsNone(Unwrap(e.current)[field])
        soilAvg     == IsNone(e.soil_temp_7day_avg_f)
        moisture    == IsNone(e.current) \/ IsNone(primary_soil_moisture(Unwrap(e.current)))
    IN  CASE rule \in {"PreEmergentRule", "GrubControlRule", "FallOverseedingRule"} ->
                soilAvg \/ cur("soil_temp_10_f")
          [] rule \in {"SpringNitrogenRule", "FallFertilizationRule"} -> soilAvg
          [] rule = "FertilizerRule" -> cur("ambient_temp_f")
          [] rule = "FungicideRule" ->
                cur("humidity_percent") \/ cur("ambient_temp_f") \/ IsNone(e.humidity_7day_avg)
          [] rule = "IrrigationForecastRule" -> IsNone(e.forecast) \/ moisture
          [] OTHER -> IsNone(e.forecast)

\* C4: no pass aborts; on the empty summary the finished pass returns the
\* empty list for every profile, history and date; and a rule that lacks a
\* summary field it needs contributes no recommendation.
C4_AbsentDataNeverFails ==
    /\ pc # "panicked"
    /\ pc = "done" /\ EmptySummary(env) => results = <<>>
    /\ pc = "done" =>
          \A i \in 1..Len(Registry) :
              RequiredAbsent(Registry[i], env) => ResultsOf(Registry[i]) = <<>>

\* a finished pass over the empty summary, in spring, for a cool-season lawn
C4_Witness ==
    /\ pc = "done" /\ EmptySummary(env) /\ results = <<>>
    /\ is_cool_season(profile.grass_type) /\ today.month = 3 /\ history = <<>>

----------------------------------------------------------------------------
(* Claims about the forecast and the rain delay                            *)

\* the largest probability and the total precipitation of a window of points
WindowMaxProb(points) == MaxSeq(MapSeq(points, LAMBDA x : x.precipitation_prob), 0)

WindowTotal(points) == SumSeq(MapSeq(points, LAMBDA x : x.precipitation_mm))

\* the value of a labelled data point of a recommendation
ValueOf(r, label) ==
    LET i == CHOOSE k \in 1..Len(r.data_points) : r.data_points[k].label = label
    IN  r.data_points[i].value

C3_NextHoursDaysHalfOpenWindow ==
    /\ op = "next_hours" =>
          ret = SelectSeq(Unwrap(env.forecast).hourly,
                          LAMBDA x : now <= x.timestamp /\ x.timestamp < now + arg)
    /\ op = "next_days" =>
          ret = SelectSeq(Unwrap(env.forecast).daily_summary,
                          LAMBDA x : UtcToday(now) <= x.date /\ x.date < UtcToday(now) + arg)

----------------------------------------------------------------------------
(* Claims about the seasonal rules                                         *)

HasLabel(r, label) == \E k \in 1..Len(r.data_points) : r.data_points[k].label = label

\* C5: cool-season grass, a month of February..May, no pre-emergent
\* application dated in the current year and a 7-day soil temperature average
\* of 55..60 F give a Warning of the pre-emergent rule that carries the data
\* point '7-Day Avg Soil Temp', whatever the other fields of the summary are.
C5_PreEmergentWarningInBand ==
    (/\ pc = "done"
     /\ is_cool_season(profile.grass_type)
     /\ today.month \in 2..5
     /\ ~\E i \in 1..Len(history) :
            /\ history[i].application_type = "PreEmergent"
            /\ history[i].application_date.year = today.year
     /\ IsSome(env.soil_temp_7day_avg_f)
     /\ Unwrap(env.soil_temp_7day_avg_f) \in 55..60)
    => LET r == ResultsOf("PreEmergentRule")
       IN  /\ Len(r) = 1
           /\ r[1].severity = "Warning"
           /\ HasLabel(r[1], "7-Day Avg Soil Temp")

\* the summary's current ambient temperature and primary soil moisture
FertObserved ==
    /\ is_cool_season(profile.grass_type)
    /\ IsSome(env.current)
    /\ IsSome(Unwrap(env.current).ambient_temp_f)

FertAmbient == Unwrap(Unwrap(env.current).ambient_temp_f)

FertMoisture == primary_soil_moisture(Unwrap(env.current))

FertHeat == FertAmbient > 85

FertMoistureBreach ==
    IsSome(FertMoisture) /\ (Unwrap(FertMoisture) < 10 \/ Unwrap(FertMoisture) > 40)

\* C6 as stated: nothing when no threshold is breached; Critical only if the
\* extreme heat (above 90 F) and the extreme drought (below 0.05) co-occur;
\* Warning whenever a single condition is breached.
C6_CriticalOnlyWhenBoth ==
    pc = "done" /\ FertObserved =>
        LET r == ResultsOf("FertilizerRule")
        IN  /\ ~FertHeat /\ ~FertMoistureBreach => r = <<>>
            /\ r # <<>> /\ r[1].severity = "Critical" =>
                  /\ FertAmbient > 90
                  /\ IsSome(FertMoisture) /\ Unwrap(FertMoisture) < 5
            /\ FertHeat # FertMoistureBreach => r # <<>> /\ r[1].severity = "Warning"

\* C6 amended: nothing when no threshold is breached; otherwise one
\* recommendation, Critical when the ambient temperature is above 90 F or the
\* primary soil moisture is below 0.05 (either alone is enough), else Warning.
C6_CriticalWhenEither ==
    pc = "done" /\ FertObserved =>
        LET r == ResultsOf("FertilizerRule")
        IN  /\ ~FertHeat /\ ~FertMoistureBreach => r = <<>>
            /\ FertHeat \/ FertMoistureBreach =>
                  /\ Len(r) = 1
                  /\ r[1].severity = "Critical" <=>
                        \/ FertAmbient > 90
                        \/ IsSome(FertMoisture) /\ Unwrap(FertMoisture) < 5
                  /\ r[1].severity \in {"Critical", "Warning"}

\* heat above 90 F with the moisture in range: one condition, Critical
C6_Witness ==
    /\ pc = "done" /\ FertObserved
    /\ FertAmbient > 90 /\ ~FertMoistureBreach /\ IsSome(FertMoisture)
    /\ ResultsOf("FertilizerRule") # <<>>
    /\ ResultsOf("FertilizerRule")[1].severity = "Critical"

\* the conditions under which each seasonal rule can recommend
SeasonalSufficient ==
    /\ is_cool_season(profile.grass_type)
    /\ history = <<>>
    /\ env.soil_temp_7day_avg_f = Some(62)
    /\ IsSome(env.current) /\ IsSome(Unwrap(env.current).soil_temp_10_f)

InDates(first, last) == DateLE(first, today) /\ DateLE(today, last)

\* C7: outside its window a seasonal rule returns nothing, for any summary,
\* profile and history; the windows are inclusive at both ends: from the first
\* to the last date a recommendation is produced when the conditions are met.
\* Grub control May 15..July 4, overseeding August 15..October 31, fall
\* fertilization September 1..November 30.
C7_SeasonalWindowsInclusive ==
    pc = "done" =>
        LET y == today.year
        IN  /\ ~InDates(Date(y, 5, 15), Date(y, 7, 4)) => ResultsOf("GrubControlRule") = <<>>
            /\ ~InDates(Date(y, 8, 15), Date(y, 10, 31)) =>
                  ResultsOf("FallOverseedingRule") = <<>>
            /\ ~InDates(Date(y, 9, 1), Date(y, 11, 30)) =>
                  ResultsOf("FallFertilizationRule") = <<>>
            /\ SeasonalSufficient =>
                  /\ InDates(Date(y, 5, 15), Date(y, 7, 4)) =>
                        ResultsOf("GrubControlRule") # <<>>
                  /\ InDates(Date(y, 8, 15), Date(y, 10, 31)) =>
                        ResultsOf("FallOverseedingRule") # <<>>
                  /\ InDates(Date(y, 9, 1), Date(y, 11, 30)) =>
                        ResultsOf("FallFertilizationRule") # <<>>

\* on July 4, the last date of its window, the grub control rule recommends
C7_Witness ==
    /\ pc = "done" /\ SeasonalSufficient
    /\ today = Date(today.year, 7, 4)
    /\ ResultsOf("GrubControlRule") # <<>>

\* an application of one of the types, of the current year, not before a date
Qualifying(types, first) ==
    \E i \in 1..Len(history) :
        /\ history[i].application_type \in types
        /\ history[i].application_date.year = today.year
        /\ DateLE(first, history[i].application_date)

\* C8: a pre-emergent application of the current year, anywhere in the history,
\* silences the pre-emergent rule; a grub control or insecticide application of
\* the current year on or after May 15 silences the grub control rule; an
\* overseed application of the current year on or after August 15 silences the
\* overseeding rule; each for every summary.
C8_DuplicateSuppression ==
    pc = "done" =>
        LET y == today.year
        IN  /\ Qualifying({"PreEmergent"}, Date(y, 1, 1)) =>
                  ResultsOf("PreEmergentRule") = <<>>
            /\ Qualifying({"GrubControl", "Insecticide"}, Date(y, 5, 15)) =>
                  ResultsOf("GrubControlRule") = <<>>
            /\ Qualifying({"Overseed"}, Date(y, 8, 15)) =>
                  ResultsOf("FallOverseedingRule") = <<>>

\* the grub control rule would recommend, but for the insecticide of May 20
\* that follows an unrelated entry of the history
C8_Witness ==
    /\ pc = "done"
    /\ IsSome(GrubControlRule(env, profile, <<>>, today))
    /\ Len(history) = 2
    /\ history[1].application_type = "Fertilizer"
    /\ history[2] = Application("Insecticide", Date(today.year, 5, 20))
    /\ ResultsOf("GrubControlRule") = <<>>

\* C9 as stated: with a fertilizer application of the current year on or after
\* February 1 the spring nitrogen rule returns nothing, whatever the 7-day soil
\* temperature average.
C9_SpringNitrogenSuppressedAlways ==
    pc = "done" /\ Qualifying({"Fertilizer"}, Date(today.year, 2, 1)) =>
        ResultsOf("SpringNitrogenRule") = <<>>

\* C9 amended: with such an application the rule returns nothing when the
\* average is 50 F or more; below 50 F (cool-season grass, February..May) it
\* returns the one Warning 'spring_n_too_early'.
C9_SpringNitrogenSuppressedFrom50 ==
    pc = "done" /\ Qualifying({"Fertilizer"}, Date(today.year, 2, 1)) =>
        LET r == ResultsOf("SpringNitrogenRule")
        IN  IF /\ is_cool_season(profile.grass_type)
               /\ today.month \in 2..5
               /\ IsSome(env.soil_temp_7day_avg_f)
               /\ Unwrap(env.soil_temp_7day_avg_f) < 50
            THEN /\ Len(r) = 1
                 /\ r[1].id = "spring_n_too_early"
                 /\ r[1].severity = "Warning"
            ELSE r = <<>>

\* fertilized on February 1, average 57 F: the rule, ready otherwise, is silent
C9_Witness ==
    /\ pc = "done"
    /\ history = <<Application("Fertilizer", Date(today.year, 2, 1))>>
    /\ env.soil_temp_7day_avg_f = Some(57)
    /\ IsSome(SpringNitrogenRule(env, profile, <<>>, today))
    /\ ResultsOf("SpringNitrogenRule") = <<>>

\* C10: a fertilizer application dated inside the phase today belongs to
\* (September, October, November) silences the fall fertilization rule for the
\* rest of that phase, whatever the soil temperature.
C10_FallPhaseAlreadyApplied ==
    (/\ pc = "done"
     /\ today.month \in {9, 10, 11}
     /\ \E i \in 1..Len(history) :
           /\ history[i].application_type = "Fertilizer"
           /\ history[i].application_date.year = today.year
           /\ history[i].application_date.month = today.month
           /\ DateLE(history[i].application_date, today))
    => ResultsOf("FallFertilizationRule") = <<>>

\* the phase, the id and the nitrogen rate that belong to a month of the fall
PhaseOfMonth(m) ==
    CASE m = 9  -> <<"Early", "fall_fert_early", 50>>
      [] m = 10 -> <<"Mid", "fall_fert_mid", 75>>
      [] m = 11 -> <<"Late", "fall_fert_winterizer", 100>>

\* C11: the phases partition the window: every date from September 1 to
\* November 30 is Early in September, Mid in October, Late in November and never
\* TooLate, and a recommendation produced on a date carries the id and the
\* nitrogen rate of that date's phase only (0.5, 0.75, 1.0 lb N per 1000 sqft).
C11_FallPhasesPartitionWindow ==
    pc = "done" =>
        LET r == ResultsOf("FallFertilizationRule")
        IN  IF InDates(Date(today.year, 9, 1), Date(today.year, 11, 30))
            THEN /\ determine_fall_phase(today, today.year) = PhaseOfMonth(today.month)[1]
                 /\ Len(r) <= 1
                 /\ r # <<>> =>
                       /\ r[1].id = PhaseOfMonth(today.month)[2]
                       /\ r[1].suggested_action = Some(PhaseOfMonth(today.month)[3])
            ELSE r = <<>>

\* on October 1 the rule recommends the mid-fall feeding at 0.75 lb
C11_Witness ==
    /\ pc = "done"
    /\ today = Date(today.year, 10, 1)
    /\ ResultsOf("FallFertilizationRule") # <<>>
    /\ ResultsOf("FallFertilizationRule")[1].id = "fall_fert_mid"
    /\ ResultsOf("FallFertilizationRule")[1].suggested_action = Some(75)

\* the first of the good days that reaches the largest score
FirstBestDay(good_days) ==
    LET best == {i \in 1..Len(good_days) :
                    \A j \in 1..Len(good_days) :
                        score(good_days[j].quality) <= score(good_days[i].quality)}
    IN  good_days[CHOOSE i \in best : \A j \in best : i <= j]

\* C12: the application window rule builds its recommendation from the
\* best-scoring good day among the first five daily entries, and of several
\* good days with the largest score the first in forecast order is chosen.
C12_FirstBestDayChosen ==
    pc = "done" /\ IsSome(env.forecast) =>
        LET r == ResultsOf("ApplicationWindowRule")
        IN  IF GoodDays(env) = <<>> THEN r = <<>>
            ELSE /\ Len(r) = 1
                 /\ r[1].suggested_action = Some(FirstBestDay(GoodDays(env)).date)

----------------------------------------------------------------------------
(* Claims about the soil-temperature trend                                 *)

\* the means of the newer and of the older window of 24, as sum and count
NewerTemps == SomeValues([i \in 1..24 |-> arg.readings[i].soil_temp_10_f])

OlderTemps == SomeValues([i \in 1..24 |-> arg.readings[24 + i].soil_temp_10_f])

\* newer mean - older mean, times both counts
TrendNum == SumSeq(NewerTemps) * Len(OlderTemps) - SumSeq(OlderTemps) * Len(NewerTemps)

TrendDen == Len(NewerTemps) * Len(OlderTemps)

\* C13 as stated: fewer than 48 samples give Unknown; with at least 48, a rise
\* of the newer mean over the older mean of 2 F or more, exactly 2 F included,
\* gives Rising, a fall of 2 F or more Falling, anything smaller Stable.
C13_TrendFromTwoDegrees ==
    op = "calculate_trend" =>
        IF Len(arg.readings) < 48 THEN ret = "Unknown"
        ELSE NewerTemps # <<>> /\ OlderTemps # <<>> =>
                ret = IF TrendNum >= 2 * TrendDen THEN "Rising"
                      ELSE IF TrendNum <= 0 - 2 * TrendDen THEN "Falling"
                      ELSE "Stable"

\* C13 amended: fewer than 48 readings, or a window of 24 without a 10 cm
\* sample, give Unknown; otherwise a rise of more than 2 F gives Rising, a fall
\* of more than 2 F Falling, and anything else, exactly 2 F included, Stable.
C13_TrendBeyondTwoDegrees ==
    op = "calculate_trend" =>
        IF Len(arg.readings) < 48 THEN ret = "Unknown"
        ELSE IF NewerTemps = <<>> \/ OlderTemps = <<>> THEN ret = "Unknown"
        ELSE ret = IF TrendNum > 2 * TrendDen THEN "Rising"
                   ELSE IF TrendNum < 0 - 2 * TrendDen THEN "Falling"
                   ELSE "Stable"

\* 48 readings, the newer window at 52 F, the older at 50 F: Stable
C13_Witness ==
    /\ op = "calculate_trend"
    /\ Len(arg.readings) = 48
    /\ \A i \in 1..24 : arg.readings[i].soil_temp_10_f = Some(52)
    /\ \A i \in 25..48 : arg.readings[i].soil_temp_10_f = Some(50)
    /\ ret = "Stable"

\* C14: a summary handed to the engine that was built from fewer than 48
\* readings has the trend Unknown: also when the 7-day query returns nothing,
\* when the soil-data fetch fails and when no soil-data client is connected.
C14_FewReadingsTrendUnknown ==
    (/\ op = "none" /\ ret # <<>>
     /\ arg.soildata # "connected" \/ Len(arg.readings) < 48)
    => env.soil_temp_trend = "Unknown"

----------------------------------------------------------------------------
(* Claims about the rain query and the daily aggregation                   *)

\* C15: rain_expected_within(hours, threshold) returns a rain forecast exactly
\* when the total precipitation of the windowed points reaches the threshold or
\* their largest probability reaches 0.5; then expected_mm is that total,
\* max_probability that maximum, and first_expected the timestamp of the first
\* windowed point with more than 0.1 mm or a probability above 0.5, absent when
\* there is none.
C15_RainExpectedWithin ==
    op = "rain_expected_within" =>
        LET w     == next_hours(Unwrap(env.forecast), now, arg.hours)
            total == WindowTotal(w)
            prob  == WindowMaxProb(w)
            wet   == {i \in 1..Len(w) : w[i].precipitation_mm > 1 \/ w[i].precipitation_prob > 50}
        IN  /\ IsSome(ret) <=> (total >= arg.threshold_mm \/ prob >= 50)
            /\ IsSome(ret) =>
                  /\ Unwrap(ret).expected_mm = total
                  /\ Unwrap(ret).max_probability = prob
                  /\ Unwrap(ret).first_expected =
                        IF wet = {} THEN None
                        ELSE Some(w[CHOOSE i \in wet : \A j \in wet : i <= j].timestamp)

\* a probability of exactly 0.5 and no rain: a forecast without a first time
C15_Witness ==
    /\ op = "rain_expected_within"
    /\ arg.threshold_mm = 25
    /\ IsSome(ret)
    /\ Unwrap(ret).max_probability = 50 /\ Unwrap(ret).expected_mm = 0
    /\ Unwrap(ret).first_expected = None

\* the points of the series in arg that fall on a date
PointsOn(date) == {i \in 1..Len(arg) : arg[i].timestamp \div 24 = date}

\* C16: the aggregation yields exactly one daily entry per distinct calendar
\* date of the series, strictly ascending by date; a day's high is the largest
\* and its low the smallest temperature, its total precipitation the sum and its
\* largest probability the maximum over exactly the points of that date.
C16_DailyAggregation ==
    op = "aggregate_daily" =>
        \A n \in 1..Len(ret) :
            LET days == ret[n]
            IN  /\ {days[k].date : k \in 1..Len(days)}
                      = {arg[i].timestamp \div 24 : i \in 1..Len(arg)}
                /\ \A k \in 1..(Len(days) - 1) : days[k].date < days[k + 1].date
                /\ \A k \in 1..Len(days) :
                      LET on == PointsOn(days[k].date)
                      IN  /\ \E i \in on : arg[i].temp_f = days[k].high_temp_f
                          /\ \A i \in on : arg[i].temp_f <= days[k].high_temp_f
                          /\ \E i \in on : arg[i].temp_f = days[k].low_temp_f
                          /\ \A i \in on : arg[i].temp_f >= days[k].low_temp_f
                          /\ days[k].total_precipitation_mm
                                = SumSeq(MapSeq(SelectSeq(arg, LAMBDA x : x.timestamp \div 24
                                                                          = days[k].date),
                                                LAMBDA x : x.precipitation_mm))
                          /\ \E i \in on : arg[i].precipitation_prob
                                              = days[k].max_precipitation_prob
                          /\ \A i \in on : arg[i].precipitation_prob
                                              <= days[k].max_precipitation_prob

\* three points on three dates, met latest first, come out in date order
C16_Witness ==
    /\ op = "aggregate_daily"
    /\ Len(arg) = 3
    /\ arg[1].timestamp = 80 /\ arg[2].timestamp = 30 /\ arg[3].timestamp = 50
    /\ Len(ret[1]) = 3
    /\ ret[1][1].date = 1 /\ ret[1][3].date = 3

\* the number of points of a date with a condition
ConditionCount(date, c) == Cardinality({i \in PointsOn(date) : arg[i].weather_condition = c})

\* the first point of a date, in series order, whose condition is a most
\* frequent one of that date
FirstDominant(date) ==
    LET top == {i \in PointsOn(date) :
                   \A j \in PointsOn(date) :
                       ConditionCount(date, arg[j].weather_condition)
                           <= ConditionCount(date, arg[i].weather_condition)}
    IN  arg[CHOOSE i \in top : \A j \in top : i <= j].weather_condition

\* C17: the dominant condition of a day is the most frequent condition of its
\* points, of equally frequent ones the first met in the series, so that
\* aggregating the same series twice gives the same dominant conditions.
C17_DominantConditionDeterministic ==
    op = "aggregate_daily" =>
        /\ \A n \in 1..Len(ret) : \A k \in 1..Len(ret[n]) :
              ret[n][k].dominant_condition = FirstDominant(ret[n][k].date)
        /\ Len(ret) = 2 => ret[1] = ret[2]

----------------------------------------------------------------------------
(* Claims about severities and flags                                       *)

\* an outcome as a number: no recommendation below every severity
OutcomeRank(o) == IF IsNone(o) THEN 0 ELSE SeverityRank(Unwrap(o).severity) + 1

\* the outcome of a rule in the pass that just ended
OutcomeOf(rule) == IF ResultsOf(rule) = <<>> THEN None ELSE Some(ResultsOf(rule)[1])

\* the day after today lies in the same window
HasTomorrow == \E e \in SeverityDates : Ordinal(e) = Ordinal(today) + 1

Tomorrow == CHOOSE e \in SeverityDates : Ordinal(e) = Ordinal(today) + 1

\* from today to tomorrow, all else fixed, the outcome of the rule does not drop
NoDropTomorrow(rule) ==
    OutcomeRank(OutcomeOf(rule))
        <= OutcomeRank(RuleEvaluate(rule, env, profile, history, Tomorrow, now))

\* C18 as stated: for the overseeding and the grub control rule, with the soil
\* temperature average and the history fixed, the severity of the outcome never
\* drops as today moves later inside the window (day by day, hence over any
\* two days), no recommendation counting below every severity.
C18_SeverityNeverDrops ==
    pc = "done" /\ HasTomorrow =>
        NoDropTomorrow("GrubControlRule") /\ NoDropTomorrow("FallOverseedingRule")

\* C18 amended: it never drops for the grub control rule, nor for the
\* overseeding rule when the average is 50 F or more; below 50 F the overseeding
\* rule warns only while more than 14 days remain and is silent afterwards.
C18_SeverityNeverDropsFrom50 ==
    pc = "done" /\ IsSome(env.soil_temp_7day_avg_f) =>
        LET avg == Unwrap(env.soil_temp_7day_avg_f)
            o   == OutcomeOf("FallOverseedingRule")
        IN  /\ HasTomorrow => NoDropTomorrow("GrubControlRule")
            /\ HasTomorrow /\ avg >= 50 => NoDropTomorrow("FallOverseedingRule")
            /\ ~overseeding_outside_window(today) /\ ~already_seeded(history, today) /\ avg < 50 =>
                  IF NumDays(Date(today.year, 10, 31), today) > 14
                  THEN IsSome(o) /\ Unwrap(o).severity = "Warning"
                  ELSE IsNone(o)

\* from June 19 to June 20, 14 days before the window closes: Advisory, then Warning
C18_Witness ==
    /\ pc = "done" /\ HasTomorrow
    /\ today = Date(today.year, 6, 19)
    /\ OutcomeRank(OutcomeOf("GrubControlRule")) = SeverityRank("Advisory") + 1
    /\ OutcomeRank(RuleEvaluate("GrubControlRule", env, profile, history, Tomorrow, now))
          = SeverityRank("Warning") + 1

\* C19: every recommendation a rule returns, and so every one the pass of the
\* engine collects, has dismissed = false and addressed = false; the engine
\* hands them on with both flags untouched; is_active holds exactly when
\* neither flag is set, whatever the two flags are.
C19_ReturnedRecommendationsActive ==
    \A i \in 1..Len(results) :
        /\ ~results[i].dismissed /\ ~results[i].addressed
        /\ is_active(results[i])
        /\ \A d, a \in BOOLEAN :
              is_active([results[i] EXCEPT !.dismissed = d, !.addressed = a])
                  <=> (~d /\ ~a)

\* a finished pass that collected recommendations of several rules, one of
\* them built with a suggested action on top of the constructor
C19_Witness ==
    /\ pc = "done" /\ Len(results) >= 3
    /\ \E i \in 1..Len(results) : IsSome(results[i].suggested_action)
    /\ \A i \in 1..Len(results) : is_active(results[i])

\* the places of the registry whose rule has the identifier
Matching(rule_id) == {k \in 1..Len(Registry) : RuleId(Registry[k]) = rule_id}

\* C20: evaluate_rule(rule_id, ...) evaluates only the registered rule whose id
\* equals rule_id, there being exactly one, and returns exactly what that rule
\* returns on the inputs; for a rule_id no registered rule has, it evaluates
\* nothing and returns no recommendation.
C20_EvaluateRuleById ==
    op = "evaluate_rule" =>
        IF Matching(arg) = {}
        THEN calls = <<>> /\ ret = None
        ELSE /\ Cardinality(Matching(arg)) = 1
             /\ \E k \in Matching(arg) :
                   /\ calls = <<Registry[k]>>
                   /\ pc # "panicked" =>
                         /\ ret = RuleEvaluate(Registry[k], env, profile, history, today, now)
                         /\ IsSome(ret) => Unwrap(ret).rule = Registry[k]

\* the grub control rule looked up by its identifier returned its recommendation
C20_Witness ==
    /\ op = "evaluate_rule" /\ arg = "grub_control"
    /\ calls = <<"GrubControlRule">>
    /\ IsSome(ret) /\ Unwrap(ret).rule = "GrubControlRule"

\* an identifier of no registered rule: nothing evaluated, nothing returned
C20_WitnessUnknown ==
    op = "evaluate_rule" /\ arg = "spring_n_ready" /\ calls = <<>> /\ ret = None

----------------------------------------------------------------------------
(* Claims about the models                                                 *)

\* C21: primary_soil_moisture is the 10 cm moisture when present, otherwise
\* the 5 cm moisture when present, otherwise the 20 cm moisture; it is absent
\* only when all three are absent; the 50 cm and the 100 cm readings never
\* influence it.
C21_PrimarySoilMoisture ==
    op = "primary_soil_moisture" =>
        /\ IsSome(arg.soil_moisture_10) => ret = arg.soil_moisture_10
        /\ IsNone(arg.soil_moisture_10) /\ IsSome(arg.soil_moisture_5)
              => ret = arg.soil_moisture_5
        /\ IsNone(arg.soil_moisture_10) /\ IsNone(arg.soil_moisture_5)
              => ret = arg.soil_moisture_20
        /\ IsNone(ret) <=> /\ IsNone(arg.soil_moisture_10)
                           /\ IsNone(arg.soil_moisture_5)
                           /\ IsNone(arg.soil_moisture_20)
        /\ \A m50, m100 \in ProbeValues :
              primary_soil_moisture([arg EXCEPT !.soil_moisture_50 = m50,
                                                !.soil_moisture_100 = m100]) = ret

\* only the 20 cm probe of the three reports, the deep probes report other
\* values: the 20 cm value is returned
C21_Witness ==
    /\ op = "primary_soil_moisture"
    /\ IsNone(arg.soil_moisture_10) /\ IsNone(arg.soil_moisture_5)
    /\ arg.soil_moisture_20 = Some(25) /\ arg.soil_moisture_50 = Some(40)
    /\ arg.soil_moisture_100 = Some(8)
    /\ ret = Some(25)

\* C22: the names of the enums round-trip through the database: an application
\* of any ApplicationType and a profile of any GrassType, stored under the
\* Debug name and read back through from_str, keeps its variant; the fallback
\* (Other, TallFescue) never replaces it.
C22_EnumNamesRoundTrip ==
    /\ op = "row_to_application" => ret = Some(arg.application_type)
    /\ op = "row_to_lawn_profile" => ret = Some(arg.grass_type)
    /\ op = "create_application"
          => ApplicationType_from_str(Unwrap(ret)) = Some(arg.application_type)
    /\ op = "create_lawn_profile"
          => GrassType_from_str(Unwrap(ret)) = Some(arg.grass_type)

\* a St. Augustine profile read back as St. Augustine, not as the fallback
C22_Witness ==
    op = "row_to_lawn_profile" /\ arg.grass_type = "StAugustine" /\ ret = Some("StAugustine")

----------------------------------------------------------------------------
(* Claims about the rain delay thresholds and the refresh                  *)

\* C26: if a forecast point within the next 48 hours (now <= t < now + 48 h)
\* has precipitation probability 0.3 or more, the rain delay rule returns a
\* recommendation of at least Advisory severity, whatever the amounts are.
C26_AdvisoryFromThirtyPercent ==
    pc = "done" /\ IsSome(env.forecast) =>
        LET hourly == Unwrap(env.forecast).hourly
            r      == ResultsOf("RainDelayRule")
        IN  (\E i \in 1..Len(hourly) :
                /\ now <= hourly[i].timestamp /\ hourly[i].timestamp < now + 48
                /\ hourly[i].precipitation_prob >= 30)
            => /\ r # <<>>
               /\ SeverityRank(r[1].severity) >= SeverityRank("Advisory")

\* the reading of the soil-data station the refresh fetched, if it fetched one
StationLatest == IF arg.soildata = "connected" THEN arg.latest ELSE None

\* C27: after a refresh the ambient temperature and the humidity of the current
\* reading are the Home Assistant values when Home Assistant reports them, and
\* otherwise those of the soil-data (NOAA) reading.
C27_AmbientFallsBackToSoilData ==
    op = "none" /\ ret # <<>> =>
        LET current == Unwrap(env.current)
            ha      == arg.homeassistant
        IN  /\ current.ambient_temp_f =
                  IF IsSome(ha) /\ IsSome(Unwrap(ha).ambient_temp_f)
                  THEN Unwrap(ha).ambient_temp_f
                  ELSE IF IsSome(StationLatest) THEN Unwrap(StationLatest).ambient_temp_f
                  ELSE None
            /\ current.humidity_percent =
                  IF IsSome(ha) /\ IsSome(Unwrap(ha).humidity_percent)
                  THEN Unwrap(ha).humidity_percent
                  ELSE IF IsSome(StationLatest) THEN Unwrap(StationLatest).humidity_percent
                  ELSE None

----------------------------------------------------------------------------
(* Claims about the terminal loop                                          *)

\* the key the loop has just handled, on the screen it was handled on
Pressed(screen, keys) ==
    /\ pc = "input" /\ app_state.screen = screen
    /\ op' = "key" /\ ret' \in {Some(k) : k \in keys}

RowIds(rows) == {rows[i].id : i \in 1..Len(rows)}

\* ApplicationsScreen::render_table: the row drawn highlighted
HighlightedRows(a) ==
    LET shown == filtered_apps(a.applications, a.applications_state.filter_type)
        i     == a.applications_state.selected_index
    IN  IF i < Len(shown) THEN {shown[i + 1].id} ELSE {}

\* C23: on the Applications screen 'd' deletes exactly the application that
\* is highlighted in the displayed table, the selected_index-th row of the
\* list after the type filter, and no other application
C23_DeleteRemovesHighlightedRow ==
    [][Pressed("Applications", {KeyChar("d")})
          => RowIds(app_state.applications) \ RowIds(app_state'.applications)
                = HighlightedRows(app_state)]_vars

\* RecommendationsScreen::render_list: the recommendations with the
\* highlighted one, the selected_index-th active one, marked
MarkHighlighted(a, key) ==
    LET active == active_recommendations(a.recommendations)
        i      == a.recommendations_state.selected_index
    IN  [k \in 1..Len(a.recommendations) |->
            LET r == a.recommendations[k]
            IN  IF i < Len(active) /\ r = active[i + 1]
                THEN IF key.code = "Enter" THEN [r EXCEPT !.addressed = TRUE]
                                           ELSE [r EXCEPT !.dismissed = TRUE]
                ELSE r]

\* C24: on the Recommendations screen Enter sets addressed, and 'x' sets
\* dismissed, on exactly the highlighted recommendation, the selected_index-th
\* element of the active recommendations, after any Up/Down/Enter/'x'
C24_MarksHighlightedRecommendation ==
    [][Pressed("Recommendations", {Key("Enter"), KeyChar("x")})
          => app_state'.recommendations = MarkHighlighted(app_state, Unwrap(ret'))]_vars

\* C25: on the Settings screen, not editing, Ctrl+S saves the lawn profile
\* and sets the status message to "Profile saved"
C25_CtrlSSavesProfile ==
    [][Pressed("Settings", {Ctrl("s")}) /\ ~app_state.settings_state.editing
          => /\ app_state'.status_message = Some("Profile saved")
             /\ app_state'.db.lawn_profile = app_state.lawn_profile]_vars

\* C30: after any Up, Down, 'f' and 'd' on the Applications screen
\* selected_index refers to an existing application: it is less than the
\* number of applications, or 0 when the list is empty
C30_SelectedIndexInRange ==
    app_state # None =>
        LET i == app_state.applications_state.selected_index
        IN  \/ i < Len(app_state.applications)
            \/ app_state.applications = <<>> /\ i = 0

\* the iteration of the loop that has just ended handled a refresh request:
\* 'r' on the Dashboard or the Environmental screen
RefreshRequested ==
    /\ op = "key" /\ ret = Some(KeyChar("r"))
    /\ app_state.screen \in {"Dashboard", "Environmental"}

\* C28: each refresh request ('r' on the Dashboard or Environmental screen)
\* causes exactly one data refresh in the same loop iteration, and no other
\* iteration refreshes; needs_refresh and refreshing are both false whenever
\* the loop next reads input; a failed refresh leaves env_summary and the
\* recommendations unchanged and the status reports the failure, a successful
\* one re-evaluates the recommendations from the new summary
C28_RefreshOncePerRequest ==
    /\ [](pc = "input" => ~app_state.needs_refresh /\ ~app_state.refreshing)
    /\ [](pc \in {"input", "exited"}
            => calls = IF RefreshRequested THEN <<"refresh">> ELSE <<>>)
    /\ [][pc = "refreshing" =>
            \/ /\ app_state'.env_summary = app_state.env_summary
               /\ app_state'.recommendations = app_state.recommendations
               /\ app_state'.status_message = Some("Refresh failed")
            \/ /\ app_state'.env_summary \in arg.summaries
               /\ app_state'.recommendations =
                     evaluate(app_state'.env_summary, Unwrap(app_state.lawn_profile),
                              app_state.applications, today, now)
               /\ app_state'.status_message = Some("Data refreshed")]_vars

\* a request on the Dashboard was followed by a refresh that replaced the
\* fair summary by the wet one, and the loop reads input again
C28_Witness ==
    /\ pc = "input" /\ RefreshRequested /\ calls = <<"refresh">>
    /\ app_state.env_summary = WetSummary
    /\ app_state.status_message = Some("Data refreshed")
    /\ Len(app_state.recommendations) > 1

\* C29: settings_state.editing implies screen = Settings in every state of
\* the loop; while a field is edited no key switches the screen, no key other
\* than Ctrl+C quits, and 'q', 's' and the digit keys are appended to the
\* edit buffer
C29_EditingStaysOnSettings ==
    /\ [](app_state.settings_state.editing => app_state.screen = "Settings")
    /\ [][pc = "input" /\ op' = "key" /\ app_state.settings_state.editing =>
            /\ app_state'.screen = app_state.screen
            /\ app_state'.should_quit => ret' = Some(Ctrl("c"))
            /\ ret' \in {Some(KeyChar("q")), Some(KeyChar("s")), Some(KeyChar("1"))} =>
                  /\ app_state'.settings_state.editing
                  /\ app_state'.settings_state.edit_buffer =
                        Append(app_state.settings_state.edit_buffer, Unwrap(ret').c)]_vars

\* 'q' was typed into the name field and the program runs on
C29_Witness ==
    /\ op = "key" /\ ret = Some(KeyChar("q"))
    /\ app_state.settings_state.editing /\ app_state.screen = "Settings"
    /\ app_state.settings_state.edit_buffer = <<"y", "q">>
    /\ ~app_state.should_quit /\ pc = "input"

====
